---- MODULE Spec2Model ----
(***************************************************************************)
(* PDFomator: sheet/grid layout, cell placement (preview and export) and   *)
(* the interactive cover-mode transform.                                   *)
(*                                                                         *)
(* Numbers.  JavaScript numbers are modelled as exact rationals extended   *)
(* with the IEEE special values NaN and +/-Infinity, so that a division by *)
(* zero yields what the program yields.  Rounding is not modelled: every   *)
(* identity below is an identity over the rationals ("within floating-     *)
(* point epsilon" in the prose).                                           *)
(***************************************************************************)
EXTENDS Integers, Sequences, FiniteSets, Bags, TLC

VARIABLES
    sheet,      \* layoutState.sheet: paperSize, orientation, width, height (mm)
    grid,       \* layoutState.grid: cols, rows
    cells,      \* layoutState.cells: JS array, index i held at position i+1
    svg,        \* the rendered preview: per cell index the <image> attributes
    closures,   \* live setupImageInteraction closures (gesture sessions)
    touches,    \* the active touch points of the screen, in order of arrival
    svgRect,    \* svg.getBoundingClientRect(): displayed size in px
    pdf,        \* the document produced by the export that just ran
    budget,     \* pointer-down events, moves and wheel ticks delivered so far
    fitted,     \* one placement problem and the rectangles computed for it
    currentTargetCell,  \* the cell being filled, NoTarget for null
    processing, \* the bag of the targetCell of every selection still being decoded
    overlay,    \* the layer that covers the page: "none", "fileTypeSelector",
                \* "fileDialog" (the file chooser of the browser), "loading"
                \* or "pageSelector"
    ontouchstart,       \* 'ontouchstart' in window: the browser delivers touch events
    mouse,      \* clientX, clientY of the mouse while its button is down on a session
    pageGrid,   \* elements.pageGrid: its children, in document order
    loops,      \* the generateThumbnailsSequentially calls that have not returned
    selectedPages,      \* the bag of the cellIndex of every processSelectedPage running
    caches,     \* the cache storage of the origin: per cache name its request keys, oldest first
    worker,     \* the service worker: its lifecycle state and the progress of install and activate
    handlers,   \* the fetch handlers of the service worker that have not settled yet
    requested   \* how many runtime URLs were put in the cache so far

vars == <<sheet, grid, cells, svg, closures, touches, svgRect, pdf, budget, fitted,
          currentTargetCell, processing, overlay, ontouchstart, mouse,
          pageGrid, loops, selectedPages, caches, worker, handlers, requested>>

----------------------------------------------------------------------------
(* JavaScript numbers *)

Abs(n) == IF n < 0 THEN -n ELSE n

Sgn(n) == IF n < 0 THEN -1 ELSE IF n > 0 THEN 1 ELSE 0

RECURSIVE GCD(_, _)
GCD(a, b) == IF b = 0 THEN a ELSE GCD(b, a % b)

\* the rational n/d, d > 0, in lowest terms
Fin(n, d) ==
    LET g == GCD(Abs(n), d)
    IN  [k |-> "fin", n |-> n \div g, d |-> d \div g]

R(n) == Fin(n, 1)

NaN == [k |-> "nan", n |-> 0, d |-> 1]

Infty(s) == [k |-> "inf", n |-> s, d |-> 1]

IsFin(a) == a.k = "fin"

IsNaN(a) == a.k = "nan"

Sign(a) == Sgn(a.n)

FNeg(a) == IF IsNaN(a) THEN NaN ELSE [a EXCEPT !.n = -a.n]

FAdd(a, b) ==
    IF IsNaN(a) \/ IsNaN(b) THEN NaN
    ELSE IF a.k = "inf" /\ b.k = "inf" THEN (IF a.n = b.n THEN a ELSE NaN)
    ELSE IF a.k = "inf" THEN a
    ELSE IF b.k = "inf" THEN b
    ELSE Fin(a.n * b.d + b.n * a.d, a.d * b.d)

FSub(a, b) == FAdd(a, FNeg(b))

FMul(a, b) ==
    IF IsNaN(a) \/ IsNaN(b) THEN NaN
    ELSE IF a.k = "inf" \/ b.k = "inf"
         THEN (IF Sign(a) * Sign(b) = 0 THEN NaN ELSE Infty(Sign(a) * Sign(b)))
    ELSE Fin(a.n * b.n, a.d * b.d)

\* x / 0 is +/-Infinity, 0 / 0 is NaN (the zero is taken to be +0)
FDiv(a, b) ==
    IF IsNaN(a) \/ IsNaN(b) THEN NaN
    ELSE IF a.k = "inf" /\ b.k = "inf" THEN NaN
    ELSE IF a.k = "inf" THEN Infty(a.n * (IF Sign(b) < 0 THEN -1 ELSE 1))
    ELSE IF b.k = "inf" THEN R(0)
    ELSE IF b.n = 0 THEN (IF a.n = 0 THEN NaN ELSE Infty(Sgn(a.n)))
    ELSE Fin(a.n * b.d * Sgn(b.n), a.d * Abs(b.n))

\* a < b; every comparison with NaN is false
FLt(a, b) ==
    IF IsNaN(a) \/ IsNaN(b) THEN FALSE
    ELSE IF a.k = "inf" THEN a.n < 0 /\ ~(b.k = "inf" /\ b.n < 0)
    ELSE IF b.k = "inf" THEN b.n > 0
    ELSE a.n * b.d < b.n * a.d

FGt(a, b) == FLt(b, a)

FLe(a, b) == FLt(a, b) \/ (~IsNaN(a) /\ a = b)

FGe(a, b) == FLe(b, a)

MathMin(a, b) ==
    IF IsNaN(a) \/ IsNaN(b) THEN NaN ELSE IF FLt(b, a) THEN b ELSE a

MathMax(a, b) ==
    IF IsNaN(a) \/ IsNaN(b) THEN NaN ELSE IF FLt(a, b) THEN b ELSE a

\* Math.sqrt on the squares the pointer positions of the model produce
RECURSIVE Newton(_, _)
Newton(n, x) == IF x <= n \div x THEN x ELSE Newton(n, (x + n \div x) \div 2)

MathSqrt(n) == R(CHOOSE r \in {IF n = 0 THEN 0 ELSE Newton(n, n)} : r * r = n)

----------------------------------------------------------------------------
(* Configuration and layout data *)

\* CONFIG.paperSizes
PaperSizes ==
    [A4 |-> [width |-> 210, height |-> 297],
     A3 |-> [width |-> 297, height |-> 420]]

PaperNames == {"A4", "A3"}

Orientations == {"portrait", "landscape"}

\* CONFIG.maxGridSize
maxGridSize == 5

\* the spacing of the preview, in mm
gridSpacing ==
    [sheetPadding |-> [top |-> R(10), right |-> R(10), bottom |-> R(10), left |-> R(10)],
     columnGap |-> R(5),
     rowGap |-> R(5),
     cellPadding |-> R(2)]

\* a null / undefined entry of layoutState.cells
NoCell == [empty |-> TRUE]

IsCell(c) == c # NoCell

IdentityTransform == [scale |-> R(1), translateX |-> R(0), translateY |-> R(0)]

\* layoutState.cells[i]; reading past the end of a JS array gives undefined
CellAt(cs, i) == IF i + 1 \in 1..Len(cs) THEN cs[i + 1] ELSE NoCell

\* The array is held without its trailing empty entries: every reader of
\* layoutState.cells tests an entry for null / undefined and none tells a trailing
\* empty entry from an entry past the end.
RECURSIVE Trim(_)
Trim(cs) ==
    IF Len(cs) > 0 /\ cs[Len(cs)] = NoCell THEN Trim(SubSeq(cs, 1, Len(cs) - 1)) ELSE cs

\* layoutState.cells[i] = v; writing past the end leaves holes
SetCell(cs, i, v) ==
    Trim([j \in 1..(IF Len(cs) > i + 1 THEN Len(cs) ELSE i + 1) |->
            IF j = i + 1 THEN v ELSE IF j <= Len(cs) THEN cs[j] ELSE NoCell])

\* a slice that keeps the whole array
Slice0_KeepsAll(cs, n) == cs

\* cells.slice(0, n)
Slice0(cs, n) == Trim([j \in 1..(IF Len(cs) < n THEN Len(cs) ELSE n) |-> cs[j]])

Rect(x, y, w, h) == [x |-> x, y |-> y, width |-> w, height |-> h]

----------------------------------------------------------------------------
(* Grid partition: the arithmetic shared by renderSVGSheet and exportToPDF *)

\* a gap counted for every column instead of between columns
cellWidthOf_GapPerColumn(width, cols, sp) ==
    LET availableWidth == FSub(FSub(R(width), sp.sheetPadding.left), sp.sheetPadding.right)
        totalGapWidth  == FMul(sp.columnGap, R(cols))
    IN  FDiv(FSub(availableWidth, totalGapWidth), R(cols))

cellWidthOf(width, cols, sp) ==
    LET availableWidth == FSub(FSub(R(width), sp.sheetPadding.left), sp.sheetPadding.right)
        totalGapWidth  == FMul(sp.columnGap, R(cols - 1))
    IN  FDiv(FSub(availableWidth, totalGapWidth), R(cols))

\* the row gaps left out of the height shared by the rows
cellHeightOf_IgnoresGaps(height, rows, sp) ==
    FDiv(FSub(FSub(R(height), sp.sheetPadding.top), sp.sheetPadding.bottom), R(rows))

cellHeightOf(height, rows, sp) ==
    LET availableHeight == FSub(FSub(R(height), sp.sheetPadding.top), sp.sheetPadding.bottom)
        totalGapHeight  == FMul(sp.rowGap, R(rows - 1))
    IN  FDiv(FSub(availableHeight, totalGapHeight), R(rows))

\* the rectangle of the cell with linear index i
cellRectOf(i, sh, gr, sp) ==
    LET cw  == cellWidthOf(sh.width, gr.cols, sp)
        ch  == cellHeightOf(sh.height, gr.rows, sp)
        row == i \div gr.cols
        col == i % gr.cols
    IN  Rect(FAdd(sp.sheetPadding.left, FMul(R(col), FAdd(cw, sp.columnGap))),
             FAdd(sp.sheetPadding.top, FMul(R(row), FAdd(ch, sp.rowGap))),
             cw, ch)

\* the content area: the cell rectangle shrunk by the cell padding
contentAreaOf(cr, sp) ==
    Rect(FAdd(cr.x, sp.cellPadding), FAdd(cr.y, sp.cellPadding),
         FSub(cr.width, FMul(sp.cellPadding, R(2))),
         FSub(cr.height, FMul(sp.cellPadding, R(2))))

----------------------------------------------------------------------------
(* Preview: renderSVGCell / renderSVGSheet *)

NoImage == [none |-> TRUE]

\* cover mode that scales about the top left corner of the base rectangle
renderSVGCell_ZoomAboutCorner(cellData, cr, sp) ==
    IF ~IsCell(cellData) THEN NoImage
    ELSE
    LET area == contentAreaOf(cr, sp)
        imageAspect == FDiv(R(cellData.image.width), R(cellData.image.height))
        wider       == FGt(imageAspect, FDiv(area.width, area.height))
        baseHeight  == IF wider THEN area.height ELSE FDiv(area.width, imageAspect)
        baseWidth   == IF wider THEN FMul(area.height, imageAspect) ELSE area.width
        transform   == cellData.transform
    IN  IF cellData.fillMode = "cover"
        THEN [x |-> FAdd(FSub(FAdd(area.x, FDiv(area.width, R(2))), FDiv(baseWidth, R(2))),
                         transform.translateX),
              y |-> FAdd(FSub(FAdd(area.y, FDiv(area.height, R(2))), FDiv(baseHeight, R(2))),
                         transform.translateY),
              width |-> FMul(baseWidth, transform.scale),
              height |-> FMul(baseHeight, transform.scale),
              preserveAspectRatio |-> "none", clip |-> area, interactive |-> TRUE]
        ELSE [x |-> area.x, y |-> area.y, width |-> area.width, height |-> area.height,
              preserveAspectRatio |->
                  IF cellData.fillMode = "fill" THEN "none" ELSE "xMidYMid meet",
              clip |-> area, interactive |-> FALSE]

\* the attributes renderSVGCell gives the <image> of a populated cell
renderSVGCell(cellData, cr, sp) ==
    IF ~IsCell(cellData) THEN NoImage
    ELSE
    LET area == contentAreaOf(cr, sp)
        imgX == area.x
        imgY == area.y
        imgWidth == area.width
        imgHeight == area.height
    IN  IF cellData.fillMode = "cover"
        THEN
          LET imageAspect == FDiv(R(cellData.image.width), R(cellData.image.height))
              cellAspect  == FDiv(imgWidth, imgHeight)
              wider       == FGt(imageAspect, cellAspect)
              baseHeight  == IF wider THEN imgHeight ELSE FDiv(imgWidth, imageAspect)
              baseWidth   == IF wider THEN FMul(imgHeight, imageAspect) ELSE imgWidth
              transform   == cellData.transform
              finalWidth  == FMul(baseWidth, transform.scale)
              finalHeight == FMul(baseHeight, transform.scale)
              centerX     == FAdd(imgX, FDiv(imgWidth, R(2)))
              centerY     == FAdd(imgY, FDiv(imgHeight, R(2)))
              finalX      == FAdd(FSub(centerX, FDiv(finalWidth, R(2))), transform.translateX)
              finalY      == FAdd(FSub(centerY, FDiv(finalHeight, R(2))), transform.translateY)
          IN  [x |-> finalX, y |-> finalY, width |-> finalWidth, height |-> finalHeight,
               preserveAspectRatio |-> "none", clip |-> area, interactive |-> TRUE]
        ELSE
          [x |-> imgX, y |-> imgY, width |-> imgWidth, height |-> imgHeight,
           preserveAspectRatio |->
               IF cellData.fillMode = "fill" THEN "none" ELSE "xMidYMid meet",
           clip |-> area, interactive |-> FALSE]

\* the preview of the whole sheet: one entry per cell index below rows * cols
renderSVGSheet(sh, gr, cs) ==
    [i \in 0..(gr.rows * gr.cols - 1) |->
        renderSVGCell(CellAt(cs, i), cellRectOf(i, sh, gr, gridSpacing), gridSpacing)]

\* what the browser paints for an <image>: with preserveAspectRatio "none" the image
\* is stretched over (x, y, width, height); with "xMidYMid meet" it is scaled
\* uniformly by the largest factor that fits and centred in that viewport
paintedRect(el, image) ==
    IF el.preserveAspectRatio = "none" THEN Rect(el.x, el.y, el.width, el.height)
    ELSE
      LET sx == FDiv(el.width, R(image.width))
          sy == FDiv(el.height, R(image.height))
          s  == MathMin(sx, sy)
          w  == FMul(R(image.width), s)
          h  == FMul(R(image.height), s)
      IN  Rect(FAdd(el.x, FDiv(FSub(el.width, w), R(2))),
               FAdd(el.y, FDiv(FSub(el.height, h), R(2))), w, h)

----------------------------------------------------------------------------
(* Export: exportToPDF and its helpers.  The cell fields content and        *)
(* objectFit that exportToPDF reads are the fields image and fillMode of    *)
(* the cells addToSpecificCell creates.                                     *)

\* 25.4 / 72: mm per point
pdfDpiToMm == Fin(127, 360)

\* the computed style of the sheet element and of a filled cell, in px.  The style
\* sheet is not among the sources; the values are those whose conversion by
\* getGridSpacing gives the spacing of the preview, the premise under which preview
\* and export are compared.
computedStylePx ==
    [paddingTop |-> Fin(3600, 127), paddingRight |-> Fin(3600, 127),
     paddingBottom |-> Fin(3600, 127), paddingLeft |-> Fin(3600, 127),
     rowGap |-> Fin(1800, 127), columnGap |-> Fin(1800, 127),
     cellPadding |-> Fin(720, 127)]

getGridSpacing(style) ==
    [rowGap |-> FMul(style.rowGap, pdfDpiToMm),
     columnGap |-> FMul(style.columnGap, pdfDpiToMm),
     sheetPadding |-> [top |-> FMul(style.paddingTop, pdfDpiToMm),
                       right |-> FMul(style.paddingRight, pdfDpiToMm),
                       bottom |-> FMul(style.paddingBottom, pdfDpiToMm),
                       left |-> FMul(style.paddingLeft, pdfDpiToMm)],
     cellPadding |-> FMul(style.cellPadding, pdfDpiToMm)]

\* contain that stretches the content over the whole content area
calculateImagePlacement_ContainStretched(imgDimensions, cellDimensions, objectFit) ==
    Rect(R(0), R(0), cellDimensions.width, cellDimensions.height)

\* cover that anchors the content at the origin of the content area
calculateImagePlacement_CoverAnchored(imgDimensions, cellDimensions, objectFit) ==
    LET imgAspect  == FDiv(R(imgDimensions.width), R(imgDimensions.height))
        cellAspect == FDiv(cellDimensions.width, cellDimensions.height)
    IN  IF FGt(imgAspect, cellAspect)
        THEN Rect(R(0), R(0), FMul(cellDimensions.height, imgAspect), cellDimensions.height)
        ELSE Rect(R(0), R(0), cellDimensions.width, FDiv(cellDimensions.width, imgAspect))

\* fill that keeps the aspect ratio of the content at the width of the content area
calculateImagePlacement_FillKeepsAspect(imgDimensions, cellDimensions, objectFit) ==
    Rect(R(0), R(0), cellDimensions.width,
         FDiv(FMul(cellDimensions.width, R(imgDimensions.height)), R(imgDimensions.width)))

\* contain that fits the height where the width is to be fitted, and the reverse
calculateImagePlacement_ContainWrongAxis(imgDimensions, cellDimensions, objectFit) ==
    LET imgAspect  == FDiv(R(imgDimensions.width), R(imgDimensions.height))
        cellAspect == FDiv(cellDimensions.width, cellDimensions.height)
        cw == cellDimensions.width
        ch == cellDimensions.height
    IN  IF FGt(imgAspect, cellAspect)
        THEN Rect(FDiv(FSub(cw, FMul(ch, imgAspect)), R(2)), R(0), FMul(ch, imgAspect), ch)
        ELSE Rect(R(0), FDiv(FSub(ch, FDiv(cw, imgAspect)), R(2)), cw, FDiv(cw, imgAspect))

\* the height of a fitted width taken as width * aspect instead of width / aspect
calculateImagePlacement_AspectInverted(imgDimensions, cellDimensions, objectFit) ==
    LET imgAspect  == FDiv(R(imgDimensions.width), R(imgDimensions.height))
        cellAspect == FDiv(cellDimensions.width, cellDimensions.height)
        cw == cellDimensions.width
        ch == cellDimensions.height
        fitWidth  == Rect(R(0), FDiv(FSub(ch, FMul(cw, imgAspect)), R(2)),
                          cw, FMul(cw, imgAspect))
        fitHeight == Rect(FDiv(FSub(cw, FMul(ch, imgAspect)), R(2)), R(0),
                          FMul(ch, imgAspect), ch)
    IN  CASE objectFit = "fill" -> Rect(R(0), R(0), cw, ch)
          [] objectFit = "cover" ->
                IF FGt(imgAspect, cellAspect) THEN fitHeight ELSE fitWidth
          [] OTHER ->
                IF FGt(imgAspect, cellAspect) THEN fitWidth ELSE fitHeight

\* the placement of an image inside a content area of the given size, relative to
\* the origin of the content area
calculateImagePlacement(imgDimensions, cellDimensions, objectFit) ==
    LET imgAspect  == FDiv(R(imgDimensions.width), R(imgDimensions.height))
        cellAspect == FDiv(cellDimensions.width, cellDimensions.height)
        cw == cellDimensions.width
        ch == cellDimensions.height
        wider == FGt(imgAspect, cellAspect)
        centred(w, h) == Rect(FDiv(FSub(cw, w), R(2)), FDiv(FSub(ch, h), R(2)), w, h)
        originalWidthMm  == FMul(R(imgDimensions.width), pdfDpiToMm)
        originalHeightMm == FMul(R(imgDimensions.height), pdfDpiToMm)
    IN  CASE objectFit = "fill" -> Rect(R(0), R(0), cw, ch)
          [] objectFit = "cover" ->
                IF wider
                THEN LET width == FMul(ch, imgAspect)
                     IN  Rect(FDiv(FSub(cw, width), R(2)), R(0), width, ch)
                ELSE LET height == FDiv(cw, imgAspect)
                     IN  Rect(R(0), FDiv(FSub(ch, height), R(2)), cw, height)
          [] objectFit = "none" -> centred(originalWidthMm, originalHeightMm)
          [] objectFit = "scale-down" ->
                LET width  == IF wider THEN cw ELSE FMul(ch, imgAspect)
                    height == IF wider THEN FDiv(cw, imgAspect) ELSE ch
                IN  IF FGt(width, originalWidthMm) \/ FGt(height, originalHeightMm)
                    THEN centred(originalWidthMm, originalHeightMm)
                    ELSE centred(width, height)
          [] OTHER ->
                IF wider
                THEN LET height == FDiv(cw, imgAspect)
                     IN  Rect(R(0), FDiv(FSub(ch, height), R(2)), cw, height)
                ELSE LET width == FMul(ch, imgAspect)
                     IN  Rect(FDiv(FSub(cw, width), R(2)), R(0), width, ch)

NoRect == Rect(R(0), R(0), R(0), R(0))

PdfOp(name, i, r) == [op |-> name, cell |-> i, rect |-> r]

\* an export that clips every draw
exportCellOps_AlwaysClips(i, cellData, cr, spacing, outcome) ==
    LET area      == contentAreaOf(cr, spacing)
        placement == calculateImagePlacement(cellData.image,
                         [width |-> area.width, height |-> area.height], cellData.fillMode)
    IN  IF outcome # "ok" THEN <<>>
        ELSE <<PdfOp("saveGraphicsState", i, NoRect), PdfOp("clip", i, area),
               PdfOp("addImage", i,
                     Rect(FAdd(area.x, placement.x), FAdd(area.y, placement.y),
                          placement.width, placement.height)),
               PdfOp("restoreGraphicsState", i, NoRect)>>

\* the calls exportToPDF makes on the document for cell i, whose rectangle is cr.
\* outcome is what the
\* environment does to this cell: "ok", "decode" (blobToDataURL or
\* getImageDimensions rejects) or "draw" (addImage throws)
exportCellOps(i, cellData, cr, spacing, outcome) ==
    LET area      == contentAreaOf(cr, spacing)
        objectFit == cellData.fillMode
        placement == calculateImagePlacement(cellData.image,
                         [width |-> area.width, height |-> area.height], objectFit)
        draw      == PdfOp("addImage", i,
                         Rect(FAdd(area.x, placement.x), FAdd(area.y, placement.y),
                              placement.width, placement.height))
        clipping  == <<PdfOp("saveGraphicsState", i, NoRect), PdfOp("clip", i, area)>>
    IN  IF outcome = "decode" THEN <<>>
        ELSE IF objectFit = "cover" \/ objectFit = "none"
             THEN IF outcome = "draw" THEN clipping
                  ELSE clipping \o <<draw, PdfOp("restoreGraphicsState", i, NoRect)>>
             ELSE IF outcome = "draw" THEN <<>> ELSE <<draw>>

\* the loop of exportToPDF over layoutState.cells, from index i on
RECURSIVE exportLoop(_, _, _, _, _, _)
exportLoop(i, cs, sh, gr, spacing, outcomes) ==
    IF i >= Len(cs) THEN <<>>
    ELSE (IF IsCell(CellAt(cs, i))
          THEN exportCellOps(i, CellAt(cs, i), cellRectOf(i, sh, gr, spacing), spacing,
                             outcomes[i])
          ELSE <<>>)
         \o exportLoop(i + 1, cs, sh, gr, spacing, outcomes)

NoPdf == [status |-> "none", width |-> 0, height |-> 0, ops |-> <<>>]

\* an export that hands over a document whatever the collaborator does
exportToPDF_SavesAnyway(sh, gr, cs, outcomes, collaborator) ==
    [status |-> "saved", width |-> sh.width, height |-> sh.height,
     ops |-> exportLoop(0, cs, sh, gr, getGridSpacing(computedStylePx), outcomes)]

\* exportToPDF: the document handed to pdf.save, or the failure it throws.
\* collaborator: "ok", "missing" (window.jspdf undefined), "construct" (the jsPDF
\* constructor throws) or "save" (pdf.save throws)
exportToPDF(sh, gr, cs, outcomes, collaborator) ==
    IF collaborator # "ok"
    THEN [NoPdf EXCEPT !.status = "failed"]
    ELSE [status |-> "saved", width |-> sh.width, height |-> sh.height,
          ops |-> exportLoop(0, cs, sh, gr, getGridSpacing(computedStylePx), outcomes)]

----------------------------------------------------------------------------
(* Bounds and input sets *)

\* pointer-down events (touchstart, mousedown) delivered in one behaviour
MaxStarts == 2

\* pointer-move events (touchmove, mousemove) delivered in one behaviour
MaxMoves == 2

\* wheel ticks delivered in one behaviour
MaxWheels == 1

\* content is attached to the cells with an index below MaxAttachIndex
MaxAttachIndex == 2

\* file selections being decoded at the same time
MaxProcessing == 2

\* columns and rows of the grids picked while content is being attached
MaxPickedSize == 2

\* thumbnail loops running at the same time
MaxLoops == 2

\* pages of a multi-page document
MaxPages == 3

\* the fetch handlers of the service worker that run at the same time
MaxHandlers == 2

\* the runtime URLs that are put in the cache
MaxRuntimeUrls == 43

\* the static assets whose cache.add can be rejected at install: the first ones
MaxFailedAssets == 1

\* clientX / clientY of pointer events.  The points lie on one line of direction
\* (3, 4), so every distance Math.sqrt computes is an integer.
Points == {<<0, 0>>, <<60, 80>>, <<180, 240>>, <<240, 320>>}

\* Touch.identifier; 0 stands for the missing identifier of a mouse point
TouchIds == {1, 2}

\* displayed sizes of the preview, in px
SvgRects == {[width |-> 210, height |-> 297], [width |-> 420, height |-> 594]}

\* decoded content: natural size in px
Images ==
    {[src |-> "square", width |-> 1000, height |-> 1000],
     [src |-> "wide", width |-> 3000, height |-> 1000]}

FillModes == {"contain", "cover", "fill"}

----------------------------------------------------------------------------
(* Gesture sessions: the closure state of setupImageInteraction *)

\* The closure of the <image> that the current preview holds for cell c and that no
\* handler has run on yet.  live: the captured cellData is still layoutState.cells[c];
\* inDom: the <image> is part of the current preview; pins: the pointers whose events
\* reach the closure (touches that began on its <image>, 0 for the document mouse
\* listeners).
FreshClosure(c) ==
    [cell |-> c, live |-> TRUE, inDom |-> TRUE, pins |-> {},
     isInteracting |-> FALSE, startTouches |-> <<>>,
     startTransform |-> CellAt(cells, c).transform]

Interactive(c) == c \in DOMAIN svg /\ svg[c] # NoImage /\ svg[c].interactive

DomClosure(c) ==
    IF \E r \in closures : r.inDom /\ r.cell = c
    THEN CHOOSE r \in closures : r.inDom /\ r.cell = c
    ELSE FreshClosure(c)

\* renderSVGSheet replaces every <image>: the old closures stay reachable only
\* through the pointers pinned to them
Rendered(cl) == {[r EXCEPT !.inDom = FALSE] : r \in {q \in cl : q.pins # {}}}

\* closures nothing can reach any more are dropped
Reachable(cl) == {r \in cl : r.pins # {} \/ r.inDom}

\* the captured cellData of the closures of the cells in gone is no longer part of
\* layoutState
Detach(cl, gone) == {[r EXCEPT !.live = r.live /\ r.cell \notin gone] : r \in cl}

TouchPoint(id, p) == [identifier |-> id, x |-> p[1], y |-> p[2]]

getDistance(touch1, touch2) ==
    LET dx == touch2.x - touch1.x
        dy == touch2.y - touch1.y
    IN  MathSqrt(dx * dx + dy * dy)

getCenter(touch1, touch2) ==
    [x |-> Fin(touch1.x + touch2.x, 2), y |-> Fin(touch1.y + touch2.y, 2)]

minScale == Fin(1, 2)

maxScale == R(3)

\* pointer movement taken as millimetres without conversion
updateTransform_Unconverted(startTransform, deltaX, deltaY, scaleChange) ==
    [scale |-> MathMax(minScale, MathMin(maxScale, FMul(startTransform.scale, scaleChange))),
     translateX |-> FAdd(startTransform.translateX, deltaX),
     translateY |-> FAdd(startTransform.translateY, deltaY)]

\* the scale left as the pinch gives it
updateTransform_Unclamped(startTransform, deltaX, deltaY, scaleChange) ==
    [scale |-> FMul(startTransform.scale, scaleChange),
     translateX |-> FAdd(startTransform.translateX,
                         FMul(FDiv(deltaX, R(svgRect.width)), R(sheet.width))),
     translateY |-> FAdd(startTransform.translateY,
                         FMul(FDiv(deltaY, R(svgRect.height)), R(sheet.height)))]

\* the transform updateTransform assigns to cellData.transform
updateTransform(startTransform, deltaX, deltaY, scaleChange) ==
    LET svgDeltaX == FMul(FDiv(deltaX, R(svgRect.width)), R(sheet.width))
        svgDeltaY == FMul(FDiv(deltaY, R(svgRect.height)), R(sheet.height))
    IN  [scale |-> MathMax(minScale, MathMin(maxScale, FMul(startTransform.scale, scaleChange))),
         translateX |-> FAdd(startTransform.translateX, svgDeltaX),
         translateY |-> FAdd(startTransform.translateY, svgDeltaY)]

Find(ts, id) == {j \in 1..Len(ts) : ts[j].identifier = id}

\* what handleTouchMove does in closure r for the touch list cur: it assigns a new
\* transform ("update"), takes a new start snapshot ("rebase") or does nothing
handleTouchMove(r, cur) ==
    LET start == r.startTouches
        none  == [kind |-> "none", transform |-> IdentityTransform]
    IN  IF ~r.isInteracting THEN none
        ELSE IF Len(cur) = 1 /\ Len(start) = 1
        THEN LET found == Find(cur, start[1].identifier)
                 currentTouch == IF found # {} THEN cur[CHOOSE j \in found : TRUE] ELSE cur[1]
             IN  [kind |-> "update",
                  transform |-> updateTransform(r.startTransform,
                                    R(currentTouch.x - start[1].x),
                                    R(currentTouch.y - start[1].y), R(1))]
        ELSE IF Len(cur) = 2 /\ Len(start) >= 1
        THEN IF Len(start) = 1 THEN [kind |-> "rebase", transform |-> IdentityTransform]
             ELSE LET f1 == Find(cur, start[1].identifier)
                      f2 == Find(cur, start[2].identifier)
                  IN  IF f1 # {} /\ f2 # {}
                      THEN LET currentTouch1 == cur[CHOOSE j \in f1 : TRUE]
                               currentTouch2 == cur[CHOOSE j \in f2 : TRUE]
                               startDistance == getDistance(start[1], start[2])
                               currentDistance == getDistance(currentTouch1, currentTouch2)
                               scaleChange == FDiv(currentDistance, startDistance)
                               startCenter == getCenter(start[1], start[2])
                               currentCenter == getCenter(currentTouch1, currentTouch2)
                           IN  [kind |-> "update",
                                transform |-> updateTransform(r.startTransform,
                                                  FSub(currentCenter.x, startCenter.x),
                                                  FSub(currentCenter.y, startCenter.y),
                                                  scaleChange)]
                      ELSE none
        ELSE none

\* cellData.transform as closure r reads it.  Once the captured cellData is no longer
\* part of layoutState its fields cannot be observed; the closure keeps its snapshot.
capturedTransform(r) ==
    IF r.live THEN CellAt(cells, r.cell).transform ELSE r.startTransform

\* handleTouchEnd in closure r; remaining is e.touches
handleTouchEnd(r, remaining) ==
    IF Len(remaining) = 0
    THEN [r EXCEPT !.isInteracting = FALSE, !.startTouches = <<>>]
    ELSE IF Len(remaining) < Len(r.startTouches)
    THEN [r EXCEPT !.startTouches = remaining, !.startTransform = capturedTransform(r)]
    ELSE r

----------------------------------------------------------------------------
(* The state machine *)

NoFit == [phase |-> "none"]

\* currentTargetCell = null
NoTarget == -1

\* a cache storage that holds no cache
NoCaches == [name \in {} |-> <<>>]

\* a service worker whose install event has just been dispatched: caches.open has not
\* settled (opened), asset is the number of STATIC_ASSETS whose cache.add has
\* settled and stored the set of those that were added; caches.keys of the activate
\* handler has not settled (listed); cacheNames is what it resolved to and deleted
\* holds the caches whose caches.delete has settled
NewWorker == [state |-> "installing", opened |-> FALSE, asset |-> 0, stored |-> {},
              listed |-> FALSE, cacheNames |-> {}, deleted |-> {}, claimed |-> FALSE]


\* the mouse button is up
NoMouse == <<>>

Init ==
    /\ sheet = [paperSize |-> "A4", orientation |-> "portrait",
                width |-> 210, height |-> 297]
    /\ grid = [cols |-> 1, rows |-> 2]
    /\ cells = <<>>
    /\ svg = renderSVGSheet(sheet, grid, cells)
    /\ closures = {}
    /\ touches = <<>>
    /\ svgRect = [width |-> 210, height |-> 297]
    /\ pdf = NoPdf
    /\ budget = [starts |-> 0, moves |-> 0, wheels |-> 0]
    /\ fitted = NoFit
    /\ currentTargetCell = NoTarget
    /\ processing = EmptyBag
    /\ overlay = "none"
    /\ ontouchstart = FALSE
    /\ mouse = NoMouse
    /\ pageGrid = <<>>
    /\ loops = {}
    /\ selectedPages = EmptyBag
    /\ caches = NoCaches
    /\ worker = NewWorker
    /\ handlers = {}
    /\ requested = 0

Populated(cs) == {i \in 0..(Len(cs) - 1) : IsCell(CellAt(cs, i))}

\* the preview is rebuilt from the layout state (sh, gr, cs)
Render(cl, sh, gr, cs) ==
    /\ svg' = renderSVGSheet(sh, gr, cs)
    /\ closures' = Rendered(cl)

\* addToSpecificCell: the cell object is new, whatever the index
addToSpecificCell(image, cellIndex) ==
    /\ cells' = SetCell(cells, cellIndex,
                    [image |-> image, fillMode |-> "contain",
                     transform |-> IdentityTransform])
    /\ Render(Detach(closures, {cellIndex}), sheet, grid, cells')

\* a cell of the grid is chosen, a file is picked and decoded, and addToSpecificCell
\* runs, with no other event in between
AddContent(c, image) ==
    /\ overlay = "none"
    /\ c \in 0..(grid.rows * grid.cols - 1)
    /\ addToSpecificCell(image, c)
    /\ pdf' = NoPdf
    /\ UNCHANGED <<sheet, grid, touches, svgRect, budget, fitted, currentTargetCell, processing, overlay, ontouchstart, mouse, pageGrid, loops, selectedPages, caches, worker, handlers, requested>>

\* removeCellContent, from the remove button of a populated cell
RemoveContent(c) ==
    /\ overlay = "none"
    /\ c \in DOMAIN svg /\ svg[c] # NoImage
    /\ cells' = SetCell(cells, c, NoCell)
    /\ Render(Detach(closures, {c}), sheet, grid, cells')
    /\ pdf' = NoPdf
    /\ UNCHANGED <<sheet, grid, touches, svgRect, budget, fitted, currentTargetCell, processing, overlay, ontouchstart, mouse, pageGrid, loops, selectedPages, caches, worker, handlers, requested>>

\* the cycle run the other way round
nextFillMode_Backwards(mode) ==
    CASE mode = "contain" -> "fill"
      [] mode = "fill" -> "cover"
      [] OTHER -> "contain"

nextFillMode(mode) ==
    CASE mode = "contain" -> "cover"
      [] mode = "cover" -> "fill"
      [] OTHER -> "contain"

\* the fill mode advanced, the transform left as it is
cycleFillMode_KeepsTransform(cs, cellIndex) ==
    IF ~IsCell(CellAt(cs, cellIndex)) THEN cs
    ELSE SetCell(cs, cellIndex,
             [CellAt(cs, cellIndex) EXCEPT !.fillMode = nextFillMode(@)])

\* the cells after cycleFillMode(cellIndex)
cycleFillMode(cs, cellIndex) ==
    IF ~IsCell(CellAt(cs, cellIndex)) THEN cs
    ELSE SetCell(cs, cellIndex,
             [CellAt(cs, cellIndex) EXCEPT !.fillMode = nextFillMode(@),
                                           !.transform = IdentityTransform])

\* cycleFillMode, from the fill-mode button or a click on an <image> that is not in
\* cover mode
CycleFillMode(c) ==
    /\ overlay = "none"
    /\ c \in DOMAIN svg /\ svg[c] # NoImage
    /\ IsCell(CellAt(cells, c))
    /\ cells' = cycleFillMode(cells, c)
    /\ Render(closures, sheet, grid, cells')
    /\ pdf' = NoPdf
    /\ UNCHANGED <<sheet, grid, touches, svgRect, budget, fitted, currentTargetCell, processing, overlay, ontouchstart, mouse, pageGrid, loops, selectedPages, caches, worker, handlers, requested>>

\* a reset button that is ignored while a session of the cell is pending
ResetTransform_IdleOnly(c) ==
    /\ overlay = "none"
    /\ Interactive(c)
    /\ cells' = IF \E r \in closures : r.cell = c /\ r.isInteracting
                THEN cells
                ELSE SetCell(cells, c,
                         [CellAt(cells, c) EXCEPT !.transform = IdentityTransform])
    /\ Render(closures, sheet, grid, cells')
    /\ pdf' = NoPdf
    /\ UNCHANGED <<sheet, grid, touches, svgRect, budget, fitted, currentTargetCell, processing, overlay, ontouchstart, mouse, pageGrid, loops, selectedPages, caches, worker, handlers, requested>>

\* the click handler of the reset button of a cover-mode cell
ResetTransform(c) ==
    /\ overlay = "none"
    /\ Interactive(c)
    /\ cells' = SetCell(cells, c, [CellAt(cells, c) EXCEPT !.transform = IdentityTransform])
    /\ Render(closures, sheet, grid, cells')
    /\ pdf' = NoPdf
    /\ UNCHANGED <<sheet, grid, touches, svgRect, budget, fitted, currentTargetCell, processing, overlay, ontouchstart, mouse, pageGrid, loops, selectedPages, caches, worker, handlers, requested>>

\* selectGrid asks for confirmation when the new grid drops populated cells
NeedsConfirm(cols, rows) ==
    /\ rows * cols < grid.rows * grid.cols
    /\ \E i \in (rows * cols)..(Len(cells) - 1) : IsCell(CellAt(cells, i))

\* selectGrid taking the zero-based position of the picked cell of the matrix
SelectGrid_ZeroBased(cols, rows, confirmed) ==
    LET newTotalCells == (rows - 1) * (cols - 1)
        declined == NeedsConfirm(cols - 1, rows - 1) /\ ~confirmed
    IN  /\ overlay = "none"
        /\ cols \in 1..maxGridSize /\ rows \in 1..maxGridSize
        /\ pdf' = NoPdf
        /\ UNCHANGED <<sheet, touches, svgRect, budget, fitted, currentTargetCell, processing, overlay, ontouchstart, mouse, pageGrid, loops, selectedPages, caches, worker, handlers, requested>>
        /\ IF declined
           THEN UNCHANGED <<grid, cells, svg, closures>>
           ELSE /\ grid' = [cols |-> cols - 1, rows |-> rows - 1]
                /\ cells' = IF Len(cells) > newTotalCells
                            THEN Slice0(cells, newTotalCells) ELSE cells
                /\ Render(Detach(closures, newTotalCells..(Len(cells) - 1)),
                          sheet, grid', cells')

\* selectGrid; confirmed is the answer to the confirm dialog, when it is shown
SelectGrid(cols, rows, confirmed) ==
    LET newTotalCells == rows * cols
        declined == NeedsConfirm(cols, rows) /\ ~confirmed
    IN  /\ overlay = "none"
        /\ cols \in 1..maxGridSize /\ rows \in 1..maxGridSize
        /\ pdf' = NoPdf
        /\ UNCHANGED <<sheet, touches, svgRect, budget, fitted, currentTargetCell, processing, overlay, ontouchstart, mouse, pageGrid, loops, selectedPages, caches, worker, handlers, requested>>
        /\ IF declined
           THEN UNCHANGED <<grid, cells, svg, closures>>
           ELSE /\ grid' = [cols |-> cols, rows |-> rows]
                /\ cells' = IF Len(cells) > newTotalCells
                            THEN Slice0(cells, newTotalCells) ELSE cells
                /\ Render(Detach(closures, newTotalCells..(Len(cells) - 1)),
                          sheet, grid', cells')

\* updateSheetSize without the transposition of a landscape sheet
SelectSize_NoTranspose(paperSize, orientation) ==
    LET size == PaperSizes[paperSize]
    IN  /\ overlay = "none"
        /\ sheet' = [paperSize |-> paperSize, orientation |-> orientation,
                     width |-> size.width, height |-> size.height]
        /\ Render(closures, sheet', grid, cells)
        /\ pdf' = NoPdf
        /\ UNCHANGED <<grid, cells, touches, svgRect, budget, fitted, currentTargetCell, processing, overlay, ontouchstart, mouse, pageGrid, loops, selectedPages, caches, worker, handlers, requested>>

\* the click handler of a size option, with updateSheetSize
SelectSize(paperSize, orientation) ==
    LET size == PaperSizes[paperSize]
    IN  /\ overlay = "none"
        /\ sheet' = [paperSize |-> paperSize, orientation |-> orientation,
                     width |-> IF orientation = "portrait" THEN size.width ELSE size.height,
                     height |-> IF orientation = "portrait" THEN size.height ELSE size.width]
        /\ Render(closures, sheet', grid, cells)
        /\ pdf' = NoPdf
        /\ UNCHANGED <<grid, cells, touches, svgRect, budget, fitted, currentTargetCell, processing, overlay, ontouchstart, mouse, pageGrid, loops, selectedPages, caches, worker, handlers, requested>>

\* handleExport with exportToPDF
HandleExport(outcomes, collaborator) ==
    /\ Populated(cells) # {}
    /\ pdf' = exportToPDF(sheet, grid, cells, outcomes, collaborator)
    /\ UNCHANGED <<sheet, grid, cells, svg, closures, touches, svgRect, budget, fitted, currentTargetCell, processing, overlay, ontouchstart, mouse, pageGrid, loops, selectedPages, caches, worker, handlers, requested>>

\* handleCellAdd, the click handler of the group of a cell: the click reaches it from
\* the "+" of an empty cell and from the background of any cell
HandleCellAdd(cellIndex) ==
    /\ overlay = "none"
    /\ cellIndex \in DOMAIN svg
    /\ currentTargetCell' = cellIndex
    /\ overlay' = "fileTypeSelector"
    /\ pdf' = NoPdf
    /\ UNCHANGED <<sheet, grid, cells, svg, closures, touches, svgRect, budget, fitted,
                   processing, ontouchstart, mouse, pageGrid, loops, selectedPages, caches, worker, handlers, requested>>

\* cancelFileTypeSelector, from the cancel button or a click beside the selector
CancelFileTypeSelector ==
    /\ overlay = "fileTypeSelector"
    /\ currentTargetCell' = NoTarget
    /\ overlay' = "none"
    /\ pdf' = NoPdf
    /\ UNCHANGED <<sheet, grid, cells, svg, closures, touches, svgRect, budget, fitted,
                   processing, ontouchstart, mouse, pageGrid, loops, selectedPages, caches, worker, handlers, requested>>

\* the click handlers of selectPdfBtn and selectImageBtn: the selector is hidden and
\* the file chooser of the browser opens
SelectFileType ==
    /\ overlay = "fileTypeSelector"
    /\ overlay' = "fileDialog"
    /\ pdf' = NoPdf
    /\ UNCHANGED <<sheet, grid, cells, svg, closures, touches, svgRect, budget, fitted,
                   currentTargetCell, processing, ontouchstart, mouse, pageGrid, loops, selectedPages, caches, worker, handlers, requested>>

\* the file chooser is closed without a file: no change event
DialogCancelled ==
    /\ overlay = "fileDialog"
    /\ overlay' = "none"
    /\ pdf' = NoPdf
    /\ UNCHANGED <<sheet, grid, cells, svg, closures, touches, svgRect, budget, fitted,
                   currentTargetCell, processing, ontouchstart, mouse, pageGrid, loops, selectedPages, caches, worker, handlers, requested>>

\* handlePDFSelection and handleImageSelection up to their await: a file was chosen
HandleSelection ==
    /\ overlay = "fileDialog"
    /\ BagCardinality(processing) < MaxProcessing
    /\ LET targetCell == currentTargetCell
       IN  IF targetCell = NoTarget
           THEN /\ overlay' = "none"
                /\ UNCHANGED processing
           ELSE /\ overlay' = "loading"
                /\ processing' = processing (+) SetToBag({targetCell})
    /\ pdf' = NoPdf
    /\ UNCHANGED <<sheet, grid, cells, svg, closures, touches, svgRect, budget, fitted,
                   currentTargetCell, ontouchstart, mouse, pageGrid, loops, selectedPages, caches, worker, handlers, requested>>

\* the finally block of handlePDFSelection and handleImageSelection
SelectionDone(targetCell) ==
    /\ processing' = processing (-) SetToBag({targetCell})
    /\ overlay' = IF overlay = "loading" THEN "none" ELSE overlay
    /\ currentTargetCell' = IF currentTargetCell = targetCell THEN NoTarget
                            ELSE currentTargetCell
    /\ pdf' = NoPdf
    /\ UNCHANGED <<sheet, grid, touches, svgRect, budget, fitted, ontouchstart, mouse, pageGrid, loops, selectedPages, caches, worker, handlers, requested>>

\* a handler that attaches to the cell that is the current target when it ends
CompleteAttach_UsesCurrentTarget(targetCell, image) ==
    /\ BagIn(targetCell, processing)
    /\ addToSpecificCell(image, IF currentTargetCell = NoTarget THEN targetCell
                                ELSE currentTargetCell)
    /\ SelectionDone(targetCell)

\* the file of a selection is decoded: processImageFileForCell or
\* processPDFFileForCell calls addToSpecificCell, and the handler ends
CompleteAttach(targetCell, image) ==
    /\ BagIn(targetCell, processing)
    /\ addToSpecificCell(image, targetCell)
    /\ SelectionDone(targetCell)

\* the file of a selection cannot be decoded: the handler ends
FailAttach(targetCell) ==
    /\ BagIn(targetCell, processing)
    /\ SelectionDone(targetCell)
    /\ UNCHANGED <<cells, svg, closures>>

\* handleKeyboard for Escape: every overlay of the page is hidden, and
\* cancelFileTypeSelector clears currentTargetCell
Escape ==
    /\ overlay # "fileDialog"
    /\ overlay' = "none"
    /\ currentTargetCell' = NoTarget
    /\ pdf' = NoPdf
    /\ UNCHANGED <<sheet, grid, cells, svg, closures, touches, svgRect, budget, fitted,
                   processing, ontouchstart, mouse, pageGrid, loops, selectedPages, caches, worker, handlers, requested>>

----------------------------------------------------------------------------
(* The page selector of a multi-page PDF and its thumbnail loop *)

\* the identifier the model gives to the document of a new loop
FreshDoc == CHOOSE d \in 1..MaxLoops :
                /\ \A L \in loops : L.doc # d
                /\ \A e \in 1..(d - 1) : \E L \in loops : L.doc = e

\* processPDFFileForCell finds numPages > 1: showPDFPageSelector empties the page
\* grid, hides the loading layer, shows the selector and calls
\* generateThumbnailsSequentially, which runs up to its first await; then the
\* finally block of handlePDFSelection runs
OpenMultiPage(targetCell, numPages) ==
    /\ BagIn(targetCell, processing)
    /\ Cardinality(loops) < MaxLoops
    /\ numPages > 1
    /\ pageGrid' = <<>>
    /\ loops' = loops \cup {[doc |-> FreshDoc, numPages |-> numPages, cell |-> targetCell,
                             pageNum |-> 1, pc |-> "render", canceled |-> FALSE]}
    /\ overlay' = "pageSelector"
    /\ processing' = processing (-) SetToBag({targetCell})
    /\ currentTargetCell' = IF currentTargetCell = targetCell THEN NoTarget
                            ELSE currentTargetCell
    /\ pdf' = NoPdf
    /\ UNCHANGED <<sheet, grid, cells, svg, closures, touches, svgRect, budget, fitted,
                   ontouchstart, mouse, selectedPages, caches, worker, handlers, requested>>

\* pageGrid.appendChild(pageDiv) of loop L, and the test that follows it
AppendPage(L, kind) ==
    /\ pageGrid' = Append(pageGrid, [doc |-> L.doc, page |-> L.pageNum,
                                     cell |-> L.cell, kind |-> kind])
    /\ loops' = IF Len(pageGrid') = L.numPages
                THEN loops \ {L}
                ELSE (loops \ {L}) \cup {[L EXCEPT !.pc = "yield"]}

\* a loop whose appends do not look at its cancellation flag
RenderSettles_IgnoresFlag(L, ok) ==
    /\ L \in loops /\ L.pc = "render"
    /\ AppendPage(L, IF ok THEN "thumbnail" ELSE "error")
    /\ pdf' = NoPdf
    /\ UNCHANGED <<sheet, grid, cells, svg, closures, touches, svgRect, budget, fitted,
                   currentTargetCell, processing, overlay, ontouchstart, mouse,
                   selectedPages, caches, worker, handlers, requested>>

\* generateThumbnailsSequentially of loop L after pdf.getPage and renderPDFPage have
\* settled: ok with the thumbnail, otherwise in the catch block
RenderSettles(L, ok) ==
    /\ L \in loops /\ L.pc = "render"
    /\ IF L.canceled
       THEN /\ loops' = loops \ {L}
            /\ UNCHANGED pageGrid
       ELSE AppendPage(L, IF ok THEN "thumbnail" ELSE "error")
    /\ pdf' = NoPdf
    /\ UNCHANGED <<sheet, grid, cells, svg, closures, touches, svgRect, budget, fitted,
                   currentTargetCell, processing, overlay, ontouchstart, mouse,
                   selectedPages, caches, worker, handlers, requested>>

\* generateThumbnailsSequentially of loop L after its setTimeout(0): pageNum++, the
\* loop test, the test of the flag, and pdf.getPage is called
YieldReturns(L) ==
    /\ L \in loops /\ L.pc = "yield"
    /\ loops' = IF L.pageNum + 1 > L.numPages \/ L.canceled
                THEN loops \ {L}
                ELSE (loops \ {L}) \cup {[L EXCEPT !.pageNum = @ + 1, !.pc = "render"]}
    /\ pdf' = NoPdf
    /\ UNCHANGED <<sheet, grid, cells, svg, closures, touches, svgRect, budget, fitted,
                   currentTargetCell, processing, overlay, ontouchstart, mouse,
                   pageGrid, selectedPages, caches, worker, handlers, requested>>

\* the click handler of the k-th child of the page grid: cancelFunction of the loop
\* that made it, hidePageSelector, showLoading, and processSelectedPage starts
SelectPage(k) ==
    /\ overlay = "pageSelector"
    /\ k \in 1..Len(pageGrid)
    /\ pageGrid[k].kind = "thumbnail"
    /\ BagCardinality(selectedPages) < MaxProcessing
    /\ loops' = {IF L.doc = pageGrid[k].doc THEN [L EXCEPT !.canceled = TRUE] ELSE L :
                    L \in loops}
    /\ overlay' = "loading"
    /\ selectedPages' = selectedPages (+) SetToBag({pageGrid[k].cell})
    /\ pdf' = NoPdf
    /\ UNCHANGED <<sheet, grid, cells, svg, closures, touches, svgRect, budget, fitted,
                   currentTargetCell, processing, ontouchstart, mouse, pageGrid, caches, worker, handlers, requested>>

\* the finally block of processSelectedPage
SelectedPageDone(cellIndex) ==
    /\ selectedPages' = selectedPages (-) SetToBag({cellIndex})
    /\ overlay' = IF overlay = "loading" THEN "none" ELSE overlay
    /\ pdf' = NoPdf
    /\ UNCHANGED <<sheet, grid, touches, svgRect, budget, fitted, currentTargetCell,
                   processing, ontouchstart, mouse, pageGrid, loops, caches, worker, handlers, requested>>

\* processSelectedPage after the page is rendered: addToSpecificCell
PageRendered(cellIndex, image) ==
    /\ BagIn(cellIndex, selectedPages)
    /\ addToSpecificCell(image, cellIndex)
    /\ SelectedPageDone(cellIndex)

\* processSelectedPage when the page cannot be rendered
PageRenderFails(cellIndex) ==
    /\ BagIn(cellIndex, selectedPages)
    /\ SelectedPageDone(cellIndex)
    /\ UNCHANGED <<cells, svg, closures>>

\* hidePageSelector, from the cancel button and from a click beside the selector
DismissPageSelector ==
    /\ overlay = "pageSelector"
    /\ overlay' = "none"
    /\ pdf' = NoPdf
    /\ UNCHANGED <<sheet, grid, cells, svg, closures, touches, svgRect, budget, fitted,
                   currentTargetCell, processing, ontouchstart, mouse,
                   pageGrid, loops, selectedPages, caches, worker, handlers, requested>>

----------------------------------------------------------------------------
(* Pointer events on the <image> of a cover-mode cell *)

SmallestFree(ids) == CHOOSE id \in ids : \A other \in ids : id <= other

ActiveIds == {touches[j].identifier : j \in 1..Len(touches)}

Pinned(id) == {r \in closures : id \in r.pins}

Replace(cl, r, q) == Reachable((cl \ {r}) \cup {q})

NoMove == [kind |-> "none", transform |-> IdentityTransform]

\* a move handler that writes one transform object shared by all cells
ApplyMove_SharedTransform(r, cur, res) ==
    /\ pdf' = NoPdf
    /\ budget' = [budget EXCEPT !.moves = @ + 1]
    /\ UNCHANGED <<sheet, grid, svgRect, fitted, currentTargetCell, processing, overlay, ontouchstart, pageGrid, loops, selectedPages, caches, worker, handlers, requested>>
    /\ CASE res.kind = "update" ->
              /\ cells' = [i \in DOMAIN cells |->
                              IF IsCell(cells[i])
                              THEN [cells[i] EXCEPT !.transform = res.transform]
                              ELSE cells[i]]
              /\ Render(closures, sheet, grid, cells')
         [] res.kind = "rebase" ->
              /\ closures' = Replace(closures, r,
                                 [r EXCEPT !.startTouches = cur,
                                           !.startTransform = capturedTransform(r)])
              /\ UNCHANGED <<cells, svg>>
         [] OTHER -> UNCHANGED <<cells, svg, closures>>

\* the effect of a move handler of closure r whose result is res; cur is the pointer
\* list of the event
ApplyMove(r, cur, res) ==
    /\ pdf' = NoPdf
    /\ budget' = [budget EXCEPT !.moves = @ + 1]
    /\ UNCHANGED <<sheet, grid, svgRect, fitted, currentTargetCell, processing, overlay, ontouchstart, pageGrid, loops, selectedPages, caches, worker, handlers, requested>>
    /\ CASE res.kind = "update" ->
              /\ cells' = IF r.live
                          THEN SetCell(cells, r.cell,
                                   [CellAt(cells, r.cell) EXCEPT !.transform = res.transform])
                          ELSE cells
              /\ Render(closures, sheet, grid, cells')
         [] res.kind = "rebase" ->
              /\ closures' = Replace(closures, r,
                                 [r EXCEPT !.startTouches = cur,
                                           !.startTransform = capturedTransform(r)])
              /\ UNCHANGED <<cells, svg>>
         [] OTHER -> UNCHANGED <<cells, svg, closures>>

\* a finger lands on the <image> of cell c: handleTouchStart
TouchStart(c, p) ==
    /\ overlay = "none"
    /\ ontouchstart
    /\ Interactive(c)
    /\ TouchIds \ ActiveIds # {}
    /\ budget.starts < MaxStarts
    /\ LET id == SmallestFree(TouchIds \ ActiveIds)
           r  == DomClosure(c)
           ts == Append(touches, TouchPoint(id, p))
       IN  /\ touches' = ts
           /\ closures' = Replace(closures, r,
                              [r EXCEPT !.pins = @ \cup {id},
                                        !.isInteracting = TRUE,
                                        !.startTouches = ts,
                                        !.startTransform = CellAt(cells, c).transform])
    /\ budget' = [budget EXCEPT !.starts = @ + 1]
    /\ pdf' = NoPdf
    /\ UNCHANGED <<sheet, grid, cells, svg, svgRect, fitted, currentTargetCell, processing, overlay, ontouchstart, mouse, pageGrid, loops, selectedPages, caches, worker, handlers, requested>>

\* a finger lands outside every cover-mode image: no handler of the sheet runs, but
\* the touch is part of e.touches of every later touch event
TouchStartElsewhere(p) ==
    /\ overlay = "none"
    /\ ontouchstart
    /\ TouchIds \ ActiveIds # {}
    /\ budget.starts < MaxStarts
    /\ touches' = Append(touches, TouchPoint(SmallestFree(TouchIds \ ActiveIds), p))
    /\ budget' = [budget EXCEPT !.starts = @ + 1]
    /\ pdf' = NoPdf
    /\ UNCHANGED <<sheet, grid, cells, svg, closures, svgRect, fitted, currentTargetCell, processing, overlay, ontouchstart, mouse, pageGrid, loops, selectedPages, caches, worker, handlers, requested>>

\* a finger moves: handleTouchMove of the closure its touch began on
TouchMove(j, p) ==
    /\ j \in 1..Len(touches)
    /\ <<touches[j].x, touches[j].y>> # p
    /\ budget.moves < MaxMoves
    /\ LET cur == [touches EXCEPT ![j] = TouchPoint(touches[j].identifier, p)]
           id  == touches[j].identifier
       IN  /\ touches' = cur
           /\ UNCHANGED mouse
           /\ IF Pinned(id) = {}
              THEN /\ pdf' = NoPdf
                   /\ budget' = [budget EXCEPT !.moves = @ + 1]
                   /\ UNCHANGED <<sheet, grid, cells, svg, closures, svgRect, fitted, currentTargetCell, processing, overlay, ontouchstart, pageGrid, loops, selectedPages, caches, worker, handlers, requested>>
              ELSE LET r == CHOOSE q \in Pinned(id) : TRUE
                   IN  ApplyMove(r, cur, handleTouchMove(r, cur))

\* a finger lifts (touchend, touchcancel): handleTouchEnd of the closure its touch
\* began on
TouchEnd(j) ==
    /\ j \in 1..Len(touches)
    /\ LET id  == touches[j].identifier
           remaining == SelectSeq(touches, LAMBDA t : t.identifier # id)
       IN  /\ touches' = remaining
           /\ IF Pinned(id) = {}
              THEN UNCHANGED closures
              ELSE LET r == CHOOSE q \in Pinned(id) : TRUE
                       q == handleTouchEnd(r, remaining)
                   IN  closures' = Replace(closures, r, [q EXCEPT !.pins = @ \ {id}])
    /\ pdf' = NoPdf
    /\ UNCHANGED <<sheet, grid, cells, svg, svgRect, budget, fitted, currentTargetCell, processing, overlay, ontouchstart, mouse, pageGrid, loops, selectedPages, caches, worker, handlers, requested>>

\* mousedown on the <image> of cell c: startInteraction
MouseDown(c, p) ==
    /\ overlay = "none"
    /\ Interactive(c)
    /\ Pinned(0) = {}
    /\ budget.starts < MaxStarts
    /\ LET r == DomClosure(c)
       IN  closures' = Replace(closures, r,
                           [r EXCEPT !.pins = @ \cup {0},
                                     !.isInteracting = TRUE,
                                     !.startTouches = <<TouchPoint(0, p)>>,
                                     !.startTransform = CellAt(cells, c).transform])
    /\ budget' = [budget EXCEPT !.starts = @ + 1]
    /\ mouse' = p
    /\ pdf' = NoPdf
    /\ UNCHANGED <<sheet, grid, cells, svg, touches, svgRect, fitted, currentTargetCell, processing, overlay, ontouchstart, pageGrid, loops, selectedPages, caches, worker, handlers, requested>>

\* the document mousemove listener: handleMouseMove
handleMouseMove(r, p) ==
    IF ~r.isInteracting \/ Len(r.startTouches) # 1
    THEN NoMove
    ELSE [kind |-> "update",
          transform |-> updateTransform(r.startTransform,
                            R(p[1] - r.startTouches[1].x),
                            R(p[2] - r.startTouches[1].y), R(1))]

MouseMove(p) ==
    /\ Pinned(0) # {}
    /\ p # mouse
    /\ mouse' = p
    /\ budget.moves < MaxMoves
    /\ LET r == CHOOSE q \in Pinned(0) : TRUE
       IN  ApplyMove(r, <<TouchPoint(0, p)>>, handleMouseMove(r, p))
    /\ UNCHANGED touches

\* a release that is followed by a click on the content of the cell whether or not the
\* <image> the button went down on is still in the document
MouseUp_AlwaysClicks ==
    /\ Pinned(0) # {}
    /\ LET r == CHOOSE q \in Pinned(0) : TRUE
           ended == Replace(closures, r,
                        [r EXCEPT !.isInteracting = FALSE, !.startTouches = <<>>,
                                  !.pins = @ \ {0}])
       IN  IF ~ontouchstart
           THEN /\ cells' = cycleFillMode(cells, r.cell)
                /\ Render(ended, sheet, grid, cells')
           ELSE /\ closures' = ended
                /\ UNCHANGED <<cells, svg>>
    /\ mouse' = NoMouse
    /\ pdf' = NoPdf
    /\ UNCHANGED <<sheet, grid, touches, svgRect, budget, fitted, currentTargetCell, processing, overlay, ontouchstart, pageGrid, loops, selectedPages, caches, worker, handlers, requested>>

\* the button is released: endInteraction, the document mouseup listener, and then
\* the click that the browser dispatches when the <image> the button went down on is
\* still in the document.  The click handler of a cover-mode <image> calls
\* cycleFillMode unless the browser has touch events.
MouseUp ==
    /\ Pinned(0) # {}
    /\ LET r == CHOOSE q \in Pinned(0) : TRUE
           ended == Replace(closures, r,
                        [r EXCEPT !.isInteracting = FALSE, !.startTouches = <<>>,
                                  !.pins = @ \ {0}])
       IN  IF r.inDom /\ ~ontouchstart
           THEN /\ cells' = cycleFillMode(cells, r.cell)
                /\ Render(ended, sheet, grid, cells')
           ELSE /\ closures' = ended
                /\ UNCHANGED <<cells, svg>>
    /\ mouse' = NoMouse
    /\ pdf' = NoPdf
    /\ UNCHANGED <<sheet, grid, touches, svgRect, budget, fitted, currentTargetCell, processing, overlay, ontouchstart, pageGrid, loops, selectedPages, caches, worker, handlers, requested>>

\* the per-tick factor of handleWheel: 1.1 for deltaY < 0, 0.9 otherwise
wheelFactor(deltaY) == IF deltaY < 0 THEN Fin(11, 10) ELSE Fin(9, 10)

\* the scale multiplied by the factor and left outside the limits
wheelScale_Unclamped(currentScale, deltaY) == FMul(currentScale, wheelFactor(deltaY))

\* the scale handleWheel assigns
wheelScale(currentScale, deltaY) ==
    MathMax(minScale, MathMin(maxScale, FMul(currentScale, wheelFactor(deltaY))))

\* a wheel tick on the <image> of cell c: handleWheel
Wheel(c, deltaY) ==
    /\ overlay = "none"
    /\ Interactive(c)
    /\ budget.wheels < MaxWheels
    /\ cells' = SetCell(cells, c,
                    [CellAt(cells, c) EXCEPT
                        !.transform.scale = wheelScale(@, deltaY)])
    /\ Render(closures, sheet, grid, cells')
    /\ budget' = [budget EXCEPT !.wheels = @ + 1]
    /\ pdf' = NoPdf
    /\ UNCHANGED <<sheet, grid, touches, svgRect, fitted, currentTargetCell, processing, overlay, ontouchstart, mouse, pageGrid, loops, selectedPages, caches, worker, handlers, requested>>

----------------------------------------------------------------------------
(* Layout: the sheet, the grid, the content of the cells, the wheel and export *)

AllCells == 0..(maxGridSize * maxGridSize - 1)

AllOk == [i \in AllCells |-> "ok"]

Attach == \E c \in 0..(MaxAttachIndex - 1), image \in Images : AddContent(c, image)

Remove == \E c \in AllCells : RemoveContent(c)

Cycle == \E c \in AllCells : CycleFillMode(c)

Reset == \E c \in AllCells : ResetTransform(c)

ChooseGrid ==
    \E cols \in 1..maxGridSize, rows \in 1..maxGridSize :
        \E confirmed \in {b \in BOOLEAN : b \/ NeedsConfirm(cols, rows)} :
            SelectGrid(cols, rows, confirmed)

ChooseSize == \E paperSize \in PaperNames, orientation \in Orientations :
                  SelectSize(paperSize, orientation)

WheelTick == \E c \in AllCells, deltaY \in {-100, 100} : Wheel(c, deltaY)

Export == HandleExport(AllOk, "ok")

Next ==
    \/ Attach
    \/ Remove
    \/ Cycle
    \/ Reset
    \/ ChooseGrid
    \/ ChooseSize
    \/ WheelTick
    \/ Export

Spec == Init /\ [][Next]_vars

----------------------------------------------------------------------------
(* Gestures on the cells of the initial sheet *)

GestureImages == {[src |-> "wide", width |-> 3000, height |-> 1000]}

GestureCells == {0}

AttachForGesture == \E c \in GestureCells, image \in GestureImages :
                        /\ ~IsCell(CellAt(cells, c))
                        /\ AddContent(c, image)

CycleForGesture == \E c \in GestureCells : CycleFillMode(c)

FingerDown == \E c \in GestureCells, p \in Points : TouchStart(c, p)

FingerDownElsewhere == \E p \in Points : TouchStartElsewhere(p)

FingerMove == \E j \in 1..2, p \in Points : TouchMove(j, p)

FingerUp == \E j \in 1..2 : TouchEnd(j)

ButtonDown == \E c \in GestureCells, p \in Points : MouseDown(c, p)

PointerMove == \E p \in Points : MouseMove(p)

ButtonUp == MouseUp

WheelOnGesture == \E c \in GestureCells, deltaY \in {-100, 100} : Wheel(c, deltaY)

NextGesture ==
    \/ AttachForGesture
    \/ CycleForGesture
    \/ FingerDown
    \/ FingerDownElsewhere
    \/ FingerMove
    \/ FingerUp
    \/ ButtonDown
    \/ PointerMove
    \/ ButtonUp
    \/ WheelOnGesture

\* the preview is displayed at any of the sizes of SvgRects
InitGesture ==
    /\ sheet = [paperSize |-> "A4", orientation |-> "portrait",
                width |-> 210, height |-> 297]
    /\ grid = [cols |-> 1, rows |-> 2]
    /\ cells = <<>>
    /\ svg = renderSVGSheet(sheet, grid, cells)
    /\ closures = {}
    /\ touches = <<>>
    /\ svgRect \in SvgRects
    /\ pdf = NoPdf
    /\ budget = [starts |-> 0, moves |-> 0, wheels |-> 0]
    /\ fitted = NoFit
    /\ currentTargetCell = NoTarget
    /\ processing = EmptyBag
    /\ overlay = "none"
    /\ ontouchstart \in BOOLEAN
    /\ mouse = NoMouse
    /\ pageGrid = <<>>
    /\ loops = {}
    /\ selectedPages = EmptyBag
    /\ caches = NoCaches
    /\ worker = NewWorker
    /\ handlers = {}
    /\ requested = 0

SpecGesture == InitGesture /\ [][NextGesture]_vars

----------------------------------------------------------------------------
(* Sessions on the two cells of the initial sheet, with the reset button *)

SessionCells == {0, 1}

SessionPoints == {<<0, 0>>, <<60, 80>>}

AttachForSession == \E c \in SessionCells, image \in GestureImages :
                        /\ ~IsCell(CellAt(cells, c))
                        /\ AddContent(c, image)

CycleForSession == \E c \in SessionCells : CycleFillMode(c)

ResetForSession == \E c \in SessionCells : ResetTransform(c)

FingerDownOnCell == \E c \in SessionCells, p \in SessionPoints : TouchStart(c, p)

FingerMoveOnCell == \E j \in 1..2, p \in SessionPoints : TouchMove(j, p)

ButtonDownOnCell == \E c \in SessionCells, p \in SessionPoints : MouseDown(c, p)

PointerMoveOnCell == \E p \in SessionPoints : MouseMove(p)

WheelOnCell == \E c \in SessionCells, deltaY \in {-100, 100} : Wheel(c, deltaY)

TapEmptyCell == \E c \in SessionCells : ~IsCell(CellAt(cells, c)) /\ HandleCellAdd(c)

NextSessions ==
    \/ AttachForSession
    \/ CycleForSession
    \/ ResetForSession
    \/ FingerDownOnCell
    \/ FingerMoveOnCell
    \/ FingerUp
    \/ ButtonDownOnCell
    \/ PointerMoveOnCell
    \/ ButtonUp
    \/ WheelOnCell
    \/ TapEmptyCell
    \/ CancelFileTypeSelector

InitSessions == InitGesture /\ svgRect = [width |-> 210, height |-> 297]

SpecSessions == InitSessions /\ [][NextSessions]_vars

----------------------------------------------------------------------------
(* Attaching content: the file selection, its decoding and the grid picker *)

TapCell == \E c \in 0..(MaxAttachIndex - 1) : HandleCellAdd(c)

Decoded == \E c \in 0..(MaxAttachIndex - 1), image \in Images : CompleteAttach(c, image)

DecodeFails == \E c \in 0..(MaxAttachIndex - 1) : FailAttach(c)

\* the grid picker offers the grids of at most MaxPickedSize columns and rows
PickGrid ==
    \E cols \in 1..MaxPickedSize, rows \in 1..MaxPickedSize :
        \E confirmed \in {b \in BOOLEAN : b \/ NeedsConfirm(cols, rows)} :
            SelectGrid(cols, rows, confirmed)

NextAttach ==
    \/ TapCell
    \/ CancelFileTypeSelector
    \/ SelectFileType
    \/ DialogCancelled
    \/ HandleSelection
    \/ Decoded
    \/ DecodeFails
    \/ Escape
    \/ PickGrid
    \/ Cycle
    \/ WheelTick

SpecAttach == Init /\ [][NextAttach]_vars

----------------------------------------------------------------------------
(* Multi-page documents: the page selector and the thumbnail loops *)

\* the cell whose "+" opens the documents
PageCells == {0}

TapPageCell == \E c \in PageCells : HandleCellAdd(c)

OpenDocument == \E c \in PageCells, numPages \in 2..MaxPages : OpenMultiPage(c, numPages)

ThumbnailSettles == \E L \in loops, ok \in BOOLEAN : RenderSettles(L, ok)

LoopResumes == \E L \in loops : YieldReturns(L)

PickPage == \E k \in 1..(MaxLoops * MaxPages) : SelectPage(k)

PageDone == \E c \in PageCells, image \in Images : PageRendered(c, image)

PageFails == \E c \in PageCells : PageRenderFails(c)

NextPages ==
    \/ TapPageCell
    \/ SelectFileType
    \/ HandleSelection
    \/ OpenDocument
    \/ ThumbnailSettles
    \/ LoopResumes
    \/ PickPage
    \/ PageDone
    \/ PageFails
    \/ DismissPageSelector
    \/ Escape

SpecPages == Init /\ [][NextPages]_vars

----------------------------------------------------------------------------
(* Exports in which cells and the collaborator can fail *)

CellOutcomes == {"ok", "decode", "draw"}

Collaborators == {"ok", "missing", "construct", "save"}

\* what happens to each cell of one export; the cells that never hold content draw
OutcomesOf(f) == [i \in AllCells |-> IF i \in DOMAIN f THEN f[i] ELSE "ok"]

ExportUnderFailures ==
    \E f \in [0..(MaxAttachIndex - 1) -> CellOutcomes], collaborator \in Collaborators :
        HandleExport(OutcomesOf(f), collaborator)

NextExport ==
    \/ Attach
    \/ Cycle
    \/ PickGrid
    \/ ExportUnderFailures

SpecExport == Init /\ [][NextExport]_vars

----------------------------------------------------------------------------
(* Layouts: every paper size, orientation and grid of the pickers *)

NextLayout ==
    \/ Attach
    \/ ChooseGrid
    \/ ChooseSize

SpecLayout == Init /\ [][NextLayout]_vars

----------------------------------------------------------------------------
(* Reshaping the grid under populated cells and under a held mouse button *)

NextReshape ==
    \/ Attach
    \/ Cycle
    \/ WheelTick
    \/ PickGrid
    \/ ButtonDownOnCell
    \/ ButtonUp

SpecReshape == Init /\ [][NextReshape]_vars

----------------------------------------------------------------------------
(* Placement: one image in one cell, as the preview and as the export place it *)

SheetOf(paperSize, orientation) ==
    [paperSize |-> paperSize, orientation |-> orientation,
     width |-> IF orientation = "portrait" THEN PaperSizes[paperSize].width
               ELSE PaperSizes[paperSize].height,
     height |-> IF orientation = "portrait" THEN PaperSizes[paperSize].height
                ELSE PaperSizes[paperSize].width]

\* the first and the last cell of every grid on every sheet, and a cell whose content
\* area is 100 x 50
FitCells ==
    UNION {{cellRectOf(0, SheetOf(ps, o), [cols |-> c, rows |-> r], gridSpacing),
            cellRectOf(c * r - 1, SheetOf(ps, o), [cols |-> c, rows |-> r], gridSpacing)} :
              ps \in PaperNames, o \in Orientations,
              c \in 1..maxGridSize, r \in 1..maxGridSize}
    \cup {Rect(R(10), R(10), R(104), R(54))}

FitImages ==
    Images \cup {[src |-> "tall", width |-> 1000, height |-> 2000],
                 [src |-> "panorama", width |-> 2000, height |-> 1000]}

FitTransforms ==
    {IdentityTransform,
     [scale |-> R(2), translateX |-> R(0), translateY |-> R(0)],
     [scale |-> Fin(1, 2), translateX |-> R(-30), translateY |-> R(45)],
     [scale |-> R(3), translateX |-> R(500), translateY |-> R(-500)],
     [scale |-> R(1), translateX |-> Fin(21, 2), translateY |-> R(0)]}

InitPlacement ==
    /\ sheet = [paperSize |-> "A4", orientation |-> "portrait",
                width |-> 210, height |-> 297]
    /\ grid = [cols |-> 1, rows |-> 2]
    /\ cells = <<>>
    /\ svg = renderSVGSheet(sheet, grid, cells)
    /\ closures = {}
    /\ touches = <<>>
    /\ svgRect = [width |-> 210, height |-> 297]
    /\ pdf = NoPdf
    /\ budget = [starts |-> 0, moves |-> 0, wheels |-> 0]
    /\ currentTargetCell = NoTarget
    /\ processing = EmptyBag
    /\ overlay = "none"
    /\ ontouchstart = FALSE
    /\ mouse = NoMouse
    /\ pageGrid = <<>>
    /\ loops = {}
    /\ selectedPages = EmptyBag
    /\ caches = NoCaches
    /\ worker = NewWorker
    /\ handlers = {}
    /\ requested = 0
    /\ \E image \in FitImages, cr \in FitCells, fillMode \in FillModes,
          transform \in FitTransforms :
          /\ fillMode # "cover" => transform = IdentityTransform
          /\ fitted = [phase |-> "input",
                       cellData |-> [image |-> image, fillMode |-> fillMode,
                                     transform |-> transform],
                       cell |-> cr,
                       element |-> NoImage,
                       exported |-> FALSE,
                       ops |-> <<>>]

\* renderSVGCell creates the <image> of the cell
PlacePreview ==
    /\ fitted.phase = "input" /\ fitted.element = NoImage
    /\ fitted' = [fitted EXCEPT !.element = renderSVGCell(fitted.cellData, fitted.cell,
                                                           gridSpacing)]
    /\ UNCHANGED <<sheet, grid, cells, svg, closures, touches, svgRect, pdf, budget,
                 currentTargetCell, processing, overlay, ontouchstart, mouse, pageGrid, loops, selectedPages, caches, worker, handlers, requested>>

\* exportToPDF places the content of the cell and draws it
PlaceExport ==
    /\ fitted.phase = "input" /\ ~fitted.exported
    /\ fitted' = [fitted EXCEPT !.exported = TRUE,
                                !.ops = exportCellOps(0, fitted.cellData, fitted.cell,
                                           getGridSpacing(computedStylePx), "ok")]
    /\ UNCHANGED <<sheet, grid, cells, svg, closures, touches, svgRect, pdf, budget,
                 currentTargetCell, processing, overlay, ontouchstart, mouse, pageGrid, loops, selectedPages, caches, worker, handlers, requested>>

NextPlacement ==
    \/ PlacePreview
    \/ PlaceExport

SpecPlacement == InitPlacement /\ [][NextPlacement]_vars

----------------------------------------------------------------------------
(* Properties of the grid partition and of the export *)

\* the intersection of two rectangles, as left / top / right / bottom edges; empty
\* intersections are all the same region
Region(a, b) ==
    LET left   == MathMax(a.x, b.x)
        top    == MathMax(a.y, b.y)
        right  == MathMin(FAdd(a.x, a.width), FAdd(b.x, b.width))
        bottom == MathMin(FAdd(a.y, a.height), FAdd(b.y, b.height))
    IN  IF FLt(left, right) /\ FLt(top, bottom)
        THEN [left |-> left, top |-> top, right |-> right, bottom |-> bottom]
        ELSE [empty |-> TRUE]

\* what the preview shows of cell i: the painted image inside its clip path
PreviewRect(i) == paintedRect(svg[i], CellAt(cells, i).image)

PreviewVisible(i) == Region(PreviewRect(i), svg[i].clip)

OpsOf(i, name) == SelectSeq(pdf.ops, LAMBDA o : o.cell = i /\ o.op = name)

\* what the exported page shows of cell i: the drawn image, inside the clip path when
\* one is in force
ExportRect(i) == OpsOf(i, "addImage")[1].rect

ExportVisible(i) ==
    IF OpsOf(i, "clip") # <<>>
    THEN Region(ExportRect(i), OpsOf(i, "clip")[1].rect)
    ELSE Region(ExportRect(i), ExportRect(i))

SpacingsInUse == {gridSpacing, getGridSpacing(computedStylePx)}

\* C1: once the sheet is exported, every populated cell is drawn in the document at
\* the rectangle at which the preview paints it, and the same part of it is visible
\* in both.
C1_PreviewExportParity ==
    pdf.status = "saved" =>
        \A i \in Populated(cells) :
            /\ i \in DOMAIN svg /\ svg[i] # NoImage
            /\ Len(OpsOf(i, "addImage")) = 1
            /\ ExportRect(i) = PreviewRect(i)
            /\ ExportVisible(i) = PreviewVisible(i)

\* C2: the columns, their gaps and the left and right padding add up to the width of
\* the sheet, and the rows, their gaps and the top and bottom padding to its height,
\* for the spacing of the preview and for the spacing of the export.
C2_CellsFillSheet ==
    \A sp \in SpacingsInUse :
        /\ FAdd(FAdd(FAdd(FMul(R(grid.cols), cellWidthOf(sheet.width, grid.cols, sp)),
                          FMul(sp.columnGap, R(grid.cols - 1))),
                     sp.sheetPadding.left), sp.sheetPadding.right) = R(sheet.width)
        /\ FAdd(FAdd(FAdd(FMul(R(grid.rows), cellHeightOf(sheet.height, grid.rows, sp)),
                          FMul(sp.rowGap, R(grid.rows - 1))),
                     sp.sheetPadding.top), sp.sheetPadding.bottom) = R(sheet.height)

\* an A4 portrait sheet with a 2 x 2 grid: cells of 92.5 mm x 136 mm
C2_Witness ==
    /\ sheet.width = 210 /\ sheet.height = 297
    /\ grid = [cols |-> 2, rows |-> 2]
    /\ cellWidthOf(sheet.width, grid.cols, gridSpacing) = Fin(185, 2)
    /\ cellHeightOf(sheet.height, grid.rows, gridSpacing) = R(136)
    /\ svg[3].none

----------------------------------------------------------------------------
(* Properties of the placement in the three fill modes *)

FitImage == fitted.cellData.image

FitMode == fitted.cellData.fillMode

FitArea == contentAreaOf(fitted.cell, gridSpacing)

Previewed == fitted.element # NoImage

Exported == fitted.exported

FitPreviewRect == paintedRect(fitted.element, FitImage)

FitOps(name) == SelectSeq(fitted.ops, LAMBDA o : o.op = name)

FitExportRect == FitOps("addImage")[1].rect

\* what is visible of the drawn image on the exported page
FitExportVisible ==
    IF FitOps("clip") # <<>> THEN Region(FitExportRect, FitOps("clip")[1].rect)
    ELSE Region(FitExportRect, FitExportRect)

FitPreviewVisible == Region(FitPreviewRect, fitted.element.clip)

SameAspect ==
    FMul(R(FitImage.width), FitArea.height) = FMul(R(FitImage.height), FitArea.width)

Centred(r) ==
    /\ FAdd(r.x, FDiv(r.width, R(2))) = FAdd(FitArea.x, FDiv(FitArea.width, R(2)))
    /\ FAdd(r.y, FDiv(r.height, R(2))) = FAdd(FitArea.y, FDiv(FitArea.height, R(2)))

NotLarger(r) == FLe(r.width, FitArea.width) /\ FLe(r.height, FitArea.height)

NotSmaller(r) == FGe(r.width, FitArea.width) /\ FGe(r.height, FitArea.height)

TouchesWidth(r) == r.width = FitArea.width

TouchesHeight(r) == r.height = FitArea.height

\* C3, as claimed: a contain placement never exceeds the content area and exactly one
\* of its width and height equals that of the content area.
C3_ContainExactlyOneAxis ==
    FitMode = "contain" =>
        /\ Previewed => /\ NotLarger(FitPreviewRect)
                        /\ TouchesWidth(FitPreviewRect) # TouchesHeight(FitPreviewRect)
        /\ Exported => /\ NotLarger(FitExportRect)
                       /\ TouchesWidth(FitExportRect) # TouchesHeight(FitExportRect)

ContainFits(r) ==
    /\ NotLarger(r)
    /\ TouchesWidth(r) \/ TouchesHeight(r)
    /\ (TouchesWidth(r) /\ TouchesHeight(r)) <=> SameAspect

\* C3, amended: a contain placement never exceeds the content area; its width or its
\* height equals that of the content area, and both do exactly when the content and
\* the content area have the same aspect ratio.
C3_ContainFits ==
    FitMode = "contain" =>
        /\ Previewed => ContainFits(FitPreviewRect)
        /\ Exported => ContainFits(FitExportRect)

\* a 3000 x 1000 image contained in the 100 x 50 content area: 100 x 33.3
C3_Witness ==
    /\ FitMode = "contain" /\ Previewed /\ Exported
    /\ FitImage.src = "wide" /\ FitArea.width = R(100) /\ FitArea.height = R(50)
    /\ FitExportRect = Rect(R(12), Fin(61, 3), R(100), Fin(100, 3))
    /\ FitPreviewRect = FitExportRect

CoverBase == FitMode = "cover" /\ fitted.cellData.transform = IdentityTransform

CoverShown(r, visible) ==
    /\ NotSmaller(r)
    /\ Centred(r)
    /\ visible = Region(FitArea, FitArea)

\* C4, as claimed: a cover placement with the identity transform is at least as wide
\* and as high as the content area, equal to it on at most one axis, centred on it
\* and visible exactly over the content area.
C4_CoverAtMostOneAxis ==
    CoverBase =>
        /\ Previewed => /\ CoverShown(FitPreviewRect, FitPreviewVisible)
                        /\ ~(TouchesWidth(FitPreviewRect) /\ TouchesHeight(FitPreviewRect))
        /\ Exported => /\ CoverShown(FitExportRect, FitExportVisible)
                       /\ ~(TouchesWidth(FitExportRect) /\ TouchesHeight(FitExportRect))

CoverFills(r, visible) ==
    /\ CoverShown(r, visible)
    /\ TouchesWidth(r) \/ TouchesHeight(r)
    /\ (TouchesWidth(r) /\ TouchesHeight(r)) <=> SameAspect

\* C4, amended: a cover placement with the identity transform is at least as wide and
\* as high as the content area, equal to it on one axis and on both exactly when the
\* aspect ratios are the same, centred on it and visible exactly over the content area.
C4_CoverFills ==
    CoverBase =>
        /\ Previewed => CoverFills(FitPreviewRect, FitPreviewVisible)
        /\ Exported => CoverFills(FitExportRect, FitExportVisible)

\* a 1000 x 2000 image covering the 100 x 50 content area: 100 x 200, 75 mm of it
\* above and 75 mm below the area
C4_Witness ==
    /\ CoverBase /\ Previewed /\ Exported
    /\ FitImage.src = "tall" /\ FitArea.width = R(100) /\ FitArea.height = R(50)
    /\ FitExportRect = Rect(R(12), R(-63), R(100), R(200))
    /\ FitPreviewRect = FitExportRect
    /\ FitOps("clip") # <<>>

\* C5: a fill placement is the content area itself, whatever the aspect ratio of the
\* content; the export draws it without a clip path and the clip path of the preview
\* hides nothing of it.
C5_FillIsContentArea ==
    FitMode = "fill" =>
        /\ Previewed => /\ FitPreviewRect = FitArea
                        /\ FitPreviewVisible = Region(FitPreviewRect, FitPreviewRect)
        /\ Exported => /\ FitExportRect = FitArea
                       /\ FitOps("clip") = <<>>
                       /\ fitted.ops = <<PdfOp("addImage", 0, FitArea)>>

\* a 3000 x 1000 image stretched over a content area of another aspect ratio
C5_Witness ==
    /\ FitMode = "fill" /\ Previewed /\ Exported
    /\ FitImage.src = "wide" /\ ~SameAspect
    /\ FitArea = Rect(R(12), R(12), R(100), R(50))
    /\ FitExportRect = FitArea /\ FitPreviewRect = FitArea

\* the base cover placement of the content in the content area, relative to its origin
CoverBaseRect ==
    calculateImagePlacement(FitImage, [width |-> FitArea.width, height |-> FitArea.height],
                            "cover")

\* C6: in cover mode the <image> has the size of the base cover placement multiplied by
\* transform.scale and its centre is the centre of the content area moved by
\* (translateX, translateY), whatever the scale and however large the translation;
\* with the identity transform it is the base cover placement.
C6_CoverTransform ==
    (FitMode = "cover" /\ Previewed) =>
        LET el == fitted.element
            t  == fitted.cellData.transform
        IN  /\ el.width = FMul(CoverBaseRect.width, t.scale)
            /\ el.height = FMul(CoverBaseRect.height, t.scale)
            /\ FAdd(el.x, FDiv(el.width, R(2))) =
                   FAdd(FAdd(FitArea.x, FDiv(FitArea.width, R(2))), t.translateX)
            /\ FAdd(el.y, FDiv(el.height, R(2))) =
                   FAdd(FAdd(FitArea.y, FDiv(FitArea.height, R(2))), t.translateY)
            /\ t = IdentityTransform =>
                   FitPreviewRect = Rect(FAdd(FitArea.x, CoverBaseRect.x),
                                         FAdd(FitArea.y, CoverBaseRect.y),
                                         CoverBaseRect.width, CoverBaseRect.height)

\* a 1000 x 1000 image in the 100 x 50 content area at scale 3, moved 500 mm to the
\* right and 500 mm up: 300 x 300 with its centre at (562, -463), off the A3 sheet
C6_Witness ==
    /\ FitMode = "cover" /\ Previewed
    /\ FitImage.src = "square" /\ FitArea = Rect(R(12), R(12), R(100), R(50))
    /\ fitted.cellData.transform.scale = R(3)
    /\ fitted.cellData.transform.translateX = R(500)
    /\ FitPreviewRect = Rect(R(412), R(-613), R(300), R(300))

----------------------------------------------------------------------------
(* Properties of the gesture sessions *)

InLimits(scale) == IsFin(scale) /\ FGe(scale, minScale) /\ FLe(scale, maxScale)

\* C7: whatever pan moves, pinch moves and wheel ticks were delivered, the scale of
\* every cell lies between minScale and maxScale.
C7_ScaleWithinLimits ==
    \A i \in Populated(cells) : InLimits(CellAt(cells, i).transform.scale)

\* px to mm along each axis of the preview
ToMmX(px) == FDiv(FMul(px, R(sheet.width)), R(svgRect.width))

ToMmY(px) == FDiv(FMul(px, R(sheet.height)), R(svgRect.height))

\* the step is a move of the only pointer of the session of closure r to p: the single
\* finger on the screen, or the mouse
PanMoveOf(r, p) ==
    /\ r.isInteracting /\ Len(r.startTouches) = 1
    /\ budget'.moves = budget.moves + 1
    /\ \/ /\ Len(touches) = 1 /\ touches' # touches
          /\ touches[1].identifier \in r.pins
          /\ touches' = <<TouchPoint(touches[1].identifier, p)>>
       \/ /\ touches' = touches
          /\ 0 \in r.pins
          /\ MouseMove(p)

\* the snapshot of closure r is the snapshot of a closure after the step
SnapshotKept(r) ==
    \E q \in closures' : /\ q.cell = r.cell /\ q.pins = r.pins /\ q.isInteracting
                         /\ q.startTouches = r.startTouches
                         /\ q.startTransform = r.startTransform

\* C8: every pan move sets the translation of the cell to the translation of the
\* snapshot taken at the start of the session plus the movement of the pointer since
\* the start of the session, converted to mm; the snapshot stays as it is, so no move
\* builds on the move before it.
C8_PanFromSnapshot ==
    [][\A r \in closures, p \in Points :
          PanMoveOf(r, p) =>
              LET t == CellAt(cells', r.cell).transform
              IN  /\ t.translateX = FAdd(r.startTransform.translateX,
                                         ToMmX(R(p[1] - r.startTouches[1].x)))
                  /\ t.translateY = FAdd(r.startTransform.translateY,
                                         ToMmY(R(p[2] - r.startTouches[1].y)))
                  /\ SnapshotKept(r)]_vars

\* a finger that went down at (60, 80) on a preview displayed at twice the size of the
\* sheet is at (240, 320) after two moves: the cell is moved by (90, 120) mm from where
\* the session found it
C8_Witness ==
    \E r \in closures :
        /\ r.isInteracting /\ r.pins = {1}
        /\ r.startTouches = <<TouchPoint(1, <<60, 80>>)>>
        /\ touches = <<TouchPoint(1, <<240, 320>>)>>
        /\ budget.moves = 2 /\ svgRect.width = 420
        /\ CellAt(cells, r.cell).transform.translateX =
               FAdd(r.startTransform.translateX, R(90))
        /\ CellAt(cells, r.cell).transform.translateY =
               FAdd(r.startTransform.translateY, R(120))

Clamp(x, lo, hi) == IF FLt(x, lo) THEN lo ELSE IF FGt(x, hi) THEN hi ELSE x

TouchOf(ts, id) == ts[CHOOSE j \in 1..Len(ts) : ts[j].identifier = id]

\* the step is a move of finger j to p, handled by closure r as a pinch: its session
\* began with two pointers and both are on the screen
PinchMoveOf(r, j, p) ==
    /\ r.isInteracting /\ Len(r.startTouches) = 2
    /\ Len(touches) = 2
    /\ \A k \in 1..2 : \E m \in 1..2 : touches[m].identifier = r.startTouches[k].identifier
    /\ j \in 1..2 /\ touches[j].identifier \in r.pins
    /\ budget'.moves = budget.moves + 1
    /\ touches' # touches
    /\ touches' = [touches EXCEPT ![j] = TouchPoint(touches[j].identifier, p)]

Interacting(c) == \E r \in closures : r.cell = c /\ r.isInteracting

NoPointerDown == touches = <<>> /\ Pinned(0) = {}

\* the step is a pointer-down on the content of cover-mode cell c
PointerDownOn(c) ==
    /\ Interactive(c)
    /\ budget'.starts = budget.starts + 1
    /\ \/ /\ Len(touches') = Len(touches) + 1
          /\ \E r \in closures' : r.cell = c /\ touches'[Len(touches')].identifier \in r.pins
       \/ /\ touches' = touches
          /\ \E r \in closures' : r.cell = c /\ 0 \in r.pins

\* C10: a pointer-down on the content of a cover-mode cell leaves its controller
\* Interacting with a snapshot of the transform of the cell; when the last pointer is
\* up every controller is Idle; a move received while the controller of a cell is Idle
\* leaves the transform of the cell as it is.
C10_IdleInteracting ==
    /\ [][\A c \in GestureCells :
             /\ PointerDownOn(c) =>
                    \E r \in closures' : /\ r.cell = c /\ r.inDom /\ r.isInteracting
                                         /\ r.startTransform = CellAt(cells, c).transform
             /\ (budget'.moves # budget.moves /\ ~Interacting(c)) =>
                    CellAt(cells', c) = CellAt(cells, c)]_vars
    /\ [](NoPointerDown => \A c \in GestureCells : ~Interacting(c))

----------------------------------------------------------------------------
(* Claims: pointers joining and leaving a session, the wheel, reset *)

\* the session of closure r, holding the pointers pins after the step, has taken a new
\* snapshot of the pointers on the screen and of the transform of its cell, and the
\* step has left the cells as they were
Rebased(r, pins) ==
    /\ cells' = cells
    /\ \E q \in closures' :
          /\ q.cell = r.cell /\ q.pins = pins /\ q.isInteracting
          /\ q.startTouches = touches'
          /\ q.startTransform = CellAt(cells, r.cell).transform

\* the step is the first move that the one-pointer session of closure r receives
\* after a second pointer has come down
GainMoveOf(r) ==
    /\ r.isInteracting /\ Len(r.startTouches) = 1
    /\ Len(touches) = 2 /\ Len(touches') = 2
    /\ budget'.moves = budget.moves + 1
    /\ \E j \in 1..2 : touches[j].identifier \in r.pins /\ touches'[j] # touches[j]

\* the step lifts one of the two pointers of the session of closure r, both of which
\* began on the content of its cell, while the other, which began on the <image> of r,
\* stays down
LossOf(r) ==
    /\ r.isInteracting /\ Len(r.startTouches) = 2
    /\ Len(touches) = 2 /\ Len(touches') = 1
    /\ {r.startTouches[k].identifier : k \in 1..2} = ActiveIds
    /\ \A id \in ActiveIds : \E q \in closures : q.cell = r.cell /\ id \in q.pins
    /\ touches'[1].identifier \in r.pins

\* C11: when a session that began with one pointer receives a move with two pointers
\* on the screen, or when one of the two pointers of a session lifts while the other
\* remains, the session takes a new snapshot of the pointers and of the transform, and
\* that event leaves the transform as it is.
C11_RebaseOnPointerChange ==
    [][\A r \in closures :
          /\ GainMoveOf(r) => Rebased(r, r.pins)
          /\ LossOf(r) => Rebased(r, {touches'[1].identifier})]_vars

WheelFactors == {wheelFactor(deltaY) : deltaY \in {-100, 100}}

CoverInGrid(c) ==
    /\ c < grid.rows * grid.cols
    /\ IsCell(CellAt(cells, c)) /\ CellAt(cells, c).fillMode = "cover"

\* C13: the reset button sets the transform of its cell to (1, 0, 0), whatever the
\* transform was and whether or not a session of the cell is pending, and changes
\* nothing else in the cells; on a cell whose transform is the identity it leaves the
\* cells as they are; in every state in which the cell is in cover mode the preview
\* holds its reset button, the only condition of the reset.
C13_ResetToIdentity ==
    /\ [][\A c \in SessionCells :
             ResetTransform(c) =>
                 /\ cells' = SetCell(cells, c,
                        [CellAt(cells, c) EXCEPT !.transform = IdentityTransform])
                 /\ CellAt(cells, c).transform = IdentityTransform => cells' = cells]_vars
    /\ [](\A c \in SessionCells : CoverInGrid(c) => Interactive(c))

\* a finger has dragged the content of a cell and is still down, and the transform of
\* the cell is the identity again
C13_Witness ==
    \E r \in closures :
        /\ r.isInteracting /\ r.pins = {1} /\ ~r.inDom
        /\ budget.moves = 1 /\ Len(touches) = 1
        /\ touches[1] # r.startTouches[1]
        /\ CellAt(cells, r.cell).fillMode = "cover"
        /\ CellAt(cells, r.cell).transform = IdentityTransform

----------------------------------------------------------------------------
(* Claims: fill modes *)

\* C14: a step that changes the fill mode of a cell from cover or to cover leaves the
\* cell with the identity transform, and a step that gives content to an empty cell
\* leaves it in contain mode with the identity transform.
C14_ModeChangeResets ==
    [][\A c \in SessionCells :
          LET old == CellAt(cells, c)
              new == CellAt(cells', c)
          IN  /\ (/\ IsCell(old) /\ IsCell(new)
                  /\ old.fillMode # new.fillMode
                  /\ "cover" \in {old.fillMode, new.fillMode})
                 => new.transform = IdentityTransform
              /\ (~IsCell(old) /\ IsCell(new))
                 => new.fillMode = "contain" /\ new.transform = IdentityTransform]_vars

\* a cell that has left cover mode has the identity transform, while a session that
\* began in cover mode still holds the snapshot of another transform
C14_Witness ==
    \E r \in closures :
        /\ r.isInteracting /\ r.startTransform # IdentityTransform
        /\ CellAt(cells, r.cell).fillMode = "fill"
        /\ CellAt(cells, r.cell).transform = IdentityTransform

\* the step is a press and release of the mouse button on the content of cover-mode
\* cell c with no movement in between
MouseTapOn(c) ==
    /\ \E r \in Pinned(0) : r.cell = c /\ r.inDom
    /\ \A r \in closures' : 0 \notin r.pins
    /\ touches' = touches

\* the step lifts the only finger of the screen, which went down on the content of
\* cover-mode cell c and has not moved
TouchTapOn(c) ==
    /\ Len(touches) = 1 /\ touches' = <<>>
    /\ \E r \in closures : /\ r.cell = c /\ r.inDom
                           /\ r.pins = {touches[1].identifier}
                           /\ r.startTouches = touches

\* the step is a tap on a cell that opens the file type selector
TapOpensSelector == currentTargetCell' # currentTargetCell /\ currentTargetCell' # NoTarget

Advanced(c) ==
    /\ IsCell(CellAt(cells', c))
    /\ CellAt(cells', c).fillMode = nextFillMode(CellAt(cells, c).fillMode)

CycleOrder ==
    /\ nextFillMode("contain") = "cover"
    /\ nextFillMode("cover") = "fill"
    /\ nextFillMode("fill") = "contain"
    /\ \A mode \in FillModes : nextFillMode(nextFillMode(nextFillMode(mode))) = mode

----------------------------------------------------------------------------
(* Claims: tap and drag, sessions of one cell and of different cells *)

\* the step releases the mouse button, which went down on the <image> of closure r
MouseReleaseOn(r) == 0 \in r.pins /\ mouse # NoMouse /\ mouse' = NoMouse

\* the mouse is not where its button went down
MouseDragged(r) ==
    /\ Len(r.startTouches) = 1
    /\ mouse # <<r.startTouches[1].x, r.startTouches[1].y>>

\* the step lifts finger j, which went down on the <image> of closure r
TouchReleaseOn(r, j) ==
    /\ j \in 1..Len(touches) /\ touches[j].identifier \in r.pins
    /\ touches' = SelectSeq(touches, LAMBDA t : t.identifier # touches[j].identifier)

\* finger j is not where the snapshot of closure r has it
TouchDragged(r, j) ==
    \E k \in 1..Len(r.startTouches) :
        /\ r.startTouches[k].identifier = touches[j].identifier
        /\ r.startTouches[k] # touches[j]

FillModeChanged(c) ==
    /\ IsCell(CellAt(cells, c)) /\ IsCell(CellAt(cells', c))
    /\ CellAt(cells', c).fillMode # CellAt(cells, c).fillMode

\* C16: the release of a pointer that went down on cover-mode content changes the fill
\* mode of the cell only if the pointer is where it went down; the release of a pointer
\* that is somewhere else leaves the cells as they are, neither cycling the fill mode
\* nor resetting the transform; and every move of the only pointer of a session to a
\* point other than its start leaves the cell with a transform other than the one the
\* session began with.
C16_TapOrDrag ==
    [][\A r \in closures :
          /\ MouseReleaseOn(r) =>
                 /\ FillModeChanged(r.cell) => ~MouseDragged(r)
                 /\ MouseDragged(r) => cells' = cells
          /\ \A j \in 1..2 :
                 TouchReleaseOn(r, j) =>
                     /\ FillModeChanged(r.cell) => ~TouchDragged(r, j)
                     /\ TouchDragged(r, j) => cells' = cells
          /\ \A p \in SessionPoints :
                 (PanMoveOf(r, p) /\ p # <<r.startTouches[1].x, r.startTouches[1].y>>)
                     => CellAt(cells', r.cell).transform # r.startTransform]_vars

\* with the mouse, the content of one cell was dragged and released and is still in
\* cover mode where the drag left it; the content of the other was pressed and
\* released in place and is in fill mode
C16_Witness ==
    /\ ~ontouchstart /\ mouse = NoMouse /\ closures = {}
    /\ budget.starts = 2 /\ budget.moves = 1 /\ budget.wheels = 0
    /\ \E c, d \in SessionCells :
          /\ IsCell(CellAt(cells, c)) /\ CellAt(cells, c).fillMode = "cover"
          /\ CellAt(cells, c).transform.translateX # R(0)
          /\ IsCell(CellAt(cells, d)) /\ CellAt(cells, d).fillMode = "fill"

\* the gesture sessions of cell c: the closures of its <image> elements that are
\* interacting
SessionsOf(c) == {r \in closures : r.cell = c /\ r.isInteracting}

\* the step is a move of a pointer that went down on the <image> of closure r
MoveOf(r) ==
    /\ budget'.moves = budget.moves + 1
    /\ \/ 0 \in r.pins /\ mouse' # mouse
       \/ \E j \in 1..Len(touches) :
             /\ touches[j].identifier \in r.pins
             /\ Len(touches') = Len(touches) /\ touches'[j] # touches[j]

\* a session of the cell of closure r began after the <image> of r had been replaced
Superseded(r) ==
    /\ ~r.inDom
    /\ \E q \in SessionsOf(r.cell) : q.inDom

\* C17: a cell has at most one gesture session at any time, and once a new session has
\* begun on a cell the moves of the pointers of an earlier session leave the cell as it
\* is.
C17_OneSessionPerCell ==
    /\ [](\A c \in GestureCells : Cardinality(SessionsOf(c)) <= 1)
    /\ [][\A r \in closures :
             (MoveOf(r) /\ Superseded(r)) => CellAt(cells', r.cell) = CellAt(cells, r.cell)]_vars

\* the step leaves every cell other than c as it is
OthersKept(c) == \A d \in SessionCells \ {c} : CellAt(cells', d) = CellAt(cells, d)

\* C18: a pointer-down, move or release of a pointer that belongs to a session of one
\* cell, a wheel tick, a reset and a fill-mode tap on one cell leave the content, the
\* fill mode and the transform of every other cell as they are, in every order in
\* which the events of two cells arrive.
C18_CellsIndependent ==
    [][/\ \A r \in closures :
             (\/ MoveOf(r) \/ MouseReleaseOn(r)
              \/ \E j \in 1..2 : TouchReleaseOn(r, j)) => OthersKept(r.cell)
       /\ \A c \in SessionCells :
             (\/ PointerDownOn(c) \/ ResetTransform(c) \/ CycleFillMode(c)
              \/ \E deltaY \in {-100, 100} : Wheel(c, deltaY)) => OthersKept(c)]_vars

\* both cells are in cover mode, each with a session of its own and with a transform
\* of its own that a move has set
C18_Witness ==
    /\ \E r, q \in closures : /\ r.cell = 0 /\ q.cell = 1
                              /\ r.isInteracting /\ q.isInteracting
    /\ budget.moves = 2
    /\ CellAt(cells, 0).transform # IdentityTransform
    /\ CellAt(cells, 1).transform # IdentityTransform
    /\ CellAt(cells, 0).transform # CellAt(cells, 1).transform

----------------------------------------------------------------------------
(* Claims: the cells and the grid *)

\* C19: no cell content exists at an index outside the grid, also when the decoding
\* of a selected file ends after the grid was shrunk below the index it was started
\* for.
C19_CellsWithinGrid ==
    \A i \in 0..(Len(cells) - 1) :
        IsCell(CellAt(cells, i)) => i < grid.rows * grid.cols

\* C20: when selectGrid(cols, rows) goes through (no confirmation was needed, or it
\* was given), the grid is rows x cols, every cell with an index below rows * cols has
\* the content, the fill mode and the transform it had, at the same index, and no
\* cell with an index of rows * cols or more has content.
C20_ReshapeKeepsPrefix ==
    [][\A cols \in 1..maxGridSize, rows \in 1..maxGridSize :
          SelectGrid(cols, rows, TRUE) =>
              /\ grid' = [cols |-> cols, rows |-> rows]
              /\ \A i \in AllCells :
                    IF i < rows * cols
                    THEN CellAt(cells', i) = CellAt(cells, i)
                    ELSE ~IsCell(CellAt(cells', i))]_vars

\* the grid was shrunk to one cell while the mouse button was held on the content
\* of cell 1: that content is gone, and cell 0 has the fill mode and the zoom it
\* was given before
C20_Witness ==
    /\ grid.rows * grid.cols = 1
    /\ \E r \in closures : r.cell = 1 /\ 0 \in r.pins /\ ~r.live
    /\ ~IsCell(CellAt(cells, 1))
    /\ IsCell(CellAt(cells, 0))
    /\ CellAt(cells, 0).fillMode = "cover"
    /\ CellAt(cells, 0).transform # IdentityTransform

----------------------------------------------------------------------------
(* Claims: the thumbnail loop of the page selector *)

\* the step appends a child made by the loop of document d to the page grid
AppendsFor(d) ==
    /\ Len(pageGrid') = Len(pageGrid) + 1
    /\ SubSeq(pageGrid', 1, Len(pageGrid)) = pageGrid
    /\ pageGrid'[Len(pageGrid')].doc = d

\* C21: the click on a page of the selector sets the cancellation flag of the loop
\* that made the page, and a loop whose flag is set appends neither a thumbnail nor
\* an error placeholder and starts no further page: when its render settles or its
\* yield returns, also before its last page, it returns.
C21_CancelledLoopStops ==
    [][/\ \A k \in 1..(MaxLoops * MaxPages) :
             SelectPage(k) =>
                 \A L \in loops' : L.doc = pageGrid[k].doc => L.canceled
       /\ \A L \in loops :
             L.canceled =>
                 /\ ~AppendsFor(L.doc)
                 /\ \A M \in loops' : M.doc = L.doc => M = L]_vars

\* a page was selected while its loop had a page left: the loop, flagged, is at its
\* yield before the last page, and the selected page is being processed
C21_Witness ==
    /\ selectedPages # EmptyBag
    /\ \E L \in loops : /\ L.canceled /\ L.pc = "yield"
                        /\ L.pageNum = L.numPages - 1
                        /\ Len(pageGrid) < L.numPages

\* C22: at most one loop is left that can append to the page grid, and the children
\* of the page grid are pages of one document.
C22_OneLoopOneDocument ==
    /\ Cardinality({L \in loops : ~L.canceled}) <= 1
    /\ \A i, j \in 1..Len(pageGrid) : pageGrid[i].doc = pageGrid[j].doc

----------------------------------------------------------------------------
(* Claims: failures and clipping in the export *)

\* the cells with the cells of F emptied
Emptied(cs, F) == [j \in 1..Len(cs) |-> IF (j - 1) \in F THEN NoCell ELSE cs[j]]

\* C23: an export that ends with a document has skipped some set F of cells, and the
\* calls it made on the document are the calls of an export of the same sheet with
\* the cells of F empty: the other cells have their rectangles and their clipping,
\* and nothing of a skipped cell is left in the document.
C23_FailureIsolated ==
    pdf.status = "saved" =>
        \E F \in SUBSET Populated(cells) :
            pdf.ops = exportLoop(0, Emptied(cells, F), sheet, grid,
                                 getGridSpacing(computedStylePx), AllOk)

\* C24: an export whose collaborator is missing, cannot be constructed or cannot
\* save ends as a failure with no document, and sheet, grid and cells are as before.
C24_CollaboratorFailureAborts ==
    [][\A f \in [0..(MaxAttachIndex - 1) -> CellOutcomes] :
          \A collaborator \in Collaborators \ {"ok"} :
              HandleExport(OutcomesOf(f), collaborator) =>
                  /\ pdf'.status = "failed" /\ pdf'.ops = <<>>
                  /\ UNCHANGED <<sheet, grid, cells>>]_vars

\* an export of a sheet with content has failed
C24_Witness == pdf.status = "failed" /\ Populated(cells) # {}

\* the positions of the calls made for cell i
OpIndexes(i, name) == {k \in 1..Len(pdf.ops) : pdf.ops[k].cell = i /\ pdf.ops[k].op = name}

CellOpsOf(i) == SelectSeq(pdf.ops, LAMBDA o : o.cell = i)

ExportArea(i) ==
    contentAreaOf(cellRectOf(i, sheet, grid, getGridSpacing(computedStylePx)),
                  getGridSpacing(computedStylePx))

----------------------------------------------------------------------------
(* Claims: the partition of the sheet into cells *)

Right(r) == FAdd(r.x, r.width)

Bottom(r) == FAdd(r.y, r.height)

\* C27: under the spacing of the preview and under the spacing of the export, the
\* rows * cols cells of the grid have one width and one height, both positive; the
\* cell to the right of a cell begins one column gap after its right edge and the
\* cell below it one row gap after its bottom edge; cell 0 begins at the left and
\* top padding; no two cells overlap; and every cell lies inside the sheet less the
\* sheet padding.
C27_CellsPartitionSheet ==
    \A sp \in SpacingsInUse :
        LET n == grid.rows * grid.cols
            rect(i) == cellRectOf(i, sheet, grid, sp)
        IN  \A i \in 0..(n - 1) :
                /\ rect(i).width = rect(0).width /\ rect(i).height = rect(0).height
                /\ FGt(rect(i).width, R(0)) /\ FGt(rect(i).height, R(0))
                /\ (i = 0) => /\ rect(i).x = sp.sheetPadding.left
                              /\ rect(i).y = sp.sheetPadding.top
                /\ (i % grid.cols < grid.cols - 1) =>
                       /\ rect(i + 1).x = FAdd(Right(rect(i)), sp.columnGap)
                       /\ rect(i + 1).y = rect(i).y
                /\ (i + grid.cols < n) =>
                       /\ rect(i + grid.cols).y = FAdd(Bottom(rect(i)), sp.rowGap)
                       /\ rect(i + grid.cols).x = rect(i).x
                /\ FGe(rect(i).x, sp.sheetPadding.left)
                /\ FGe(rect(i).y, sp.sheetPadding.top)
                /\ FLe(Right(rect(i)), FSub(R(sheet.width), sp.sheetPadding.right))
                /\ FLe(Bottom(rect(i)), FSub(R(sheet.height), sp.sheetPadding.bottom))
                /\ \A j \in 0..(n - 1) :
                       i # j => Region(rect(i), rect(j)) = [empty |-> TRUE]

\* the largest grid on a landscape sheet
C27_Witness ==
    /\ grid = [cols |-> maxGridSize, rows |-> maxGridSize]
    /\ sheet.orientation = "landscape"

----------------------------------------------------------------------------
(* Claims: the contain placement and placements at equal aspect ratios *)

\* the contain placement as the specification gives it, for content of natural size
\* nw x nh in a target of tw x th, relative to the origin of the target
ContainReference(nw, nh, tw, th) ==
    LET imageAspect  == FDiv(nw, nh)
        targetAspect == FDiv(tw, th)
    IN  IF FGt(imageAspect, targetAspect)
        THEN LET h == FDiv(tw, imageAspect)
             IN  Rect(R(0), FDiv(FSub(th, h), R(2)), tw, h)
        ELSE LET w == FMul(th, imageAspect)
             IN  Rect(FDiv(FSub(tw, w), R(2)), R(0), w, th)

\* a rectangle of the sheet, relative to the origin of the content area
InFitArea(r) == Rect(FSub(r.x, FitArea.x), FSub(r.y, FitArea.y), r.width, r.height)

\* C28: the rectangle at which a contain cell is drawn by the export and painted by
\* the preview is, relative to the content area, the reference placement: the width
\* fitted and the content centred vertically when the content is wider in aspect
\* than the content area, the height fitted and the content centred horizontally
\* otherwise.
C28_ContainIsReference ==
    FitMode = "contain" =>
        LET reference == ContainReference(R(FitImage.width), R(FitImage.height),
                                          FitArea.width, FitArea.height)
        IN  /\ Exported => InFitArea(FitExportRect) = reference
            /\ Previewed => InFitArea(FitPreviewRect) = reference

\* content of 1000 x 1000 contained in the 100 x 50 content area: (25, 0, 50, 50)
C28_Witness ==
    /\ FitMode = "contain" /\ Previewed /\ Exported
    /\ FitImage.width = 1000 /\ FitImage.height = 1000
    /\ FitArea.width = R(100) /\ FitArea.height = R(50)
    /\ InFitArea(FitExportRect) = Rect(R(25), R(0), R(50), R(50))
    /\ InFitArea(FitPreviewRect) = Rect(R(25), R(0), R(50), R(50))

\* C29: when the content and the content area have the same aspect ratio, contain,
\* fill and cover with the identity transform give the placement (0, 0, targetWidth,
\* targetHeight): calculateImagePlacement gives it in the three modes, and the cell
\* is drawn and painted over its content area.
C29_EqualAspectSamePlacement ==
    (SameAspect /\ fitted.cellData.transform = IdentityTransform) =>
        /\ \A mode \in FillModes :
              calculateImagePlacement(FitImage,
                  [width |-> FitArea.width, height |-> FitArea.height], mode)
              = Rect(R(0), R(0), FitArea.width, FitArea.height)
        /\ Exported => FitExportRect = FitArea
        /\ Previewed => FitPreviewRect = FitArea

\* content of 2000 x 1000 covering the 100 x 50 content area: (0, 0, 100, 50)
C29_Witness ==
    /\ FitMode = "cover" /\ fitted.cellData.transform = IdentityTransform
    /\ Previewed /\ Exported
    /\ FitImage.width = 2000 /\ FitImage.height = 1000
    /\ FitArea.width = R(100) /\ FitArea.height = R(50)
    /\ InFitArea(FitExportRect) = Rect(R(0), R(0), R(100), R(50))
    /\ InFitArea(FitPreviewRect) = Rect(R(0), R(0), R(100), R(50))

----------------------------------------------------------------------------
(* Claims: the range of the grid *)

\* C30: in every reachable state the grid has between 1 and maxGridSize (5) columns
\* and between 1 and maxGridSize rows, hence at least one cell, whatever grids
\* were selected.
C30_GridInRange ==
    /\ grid.cols \in 1..maxGridSize
    /\ grid.rows \in 1..maxGridSize
    /\ grid.rows * grid.cols >= 1

\* the smallest grid, selected while the first cell holds content
C30_Witness ==
    /\ grid = [cols |-> 1, rows |-> 1]
    /\ Len(cells) = 1

----------------------------------------------------------------------------
(* Claims: the size of the sheet *)

\* the sheet has the size of its paper size in the table, transposed when landscape
SheetMatchesTable ==
    LET size == PaperSizes[sheet.paperSize]
    IN  /\ sheet.paperSize \in PaperNames
        /\ sheet.orientation \in Orientations
        /\ sheet.orientation = "portrait" =>
               sheet.width = size.width /\ sheet.height = size.height
        /\ sheet.orientation = "landscape" =>
               sheet.width = size.height /\ sheet.height = size.width
        /\ sheet.width > 0 /\ sheet.height > 0

\* C31: in every reachable state the width and height of the sheet are those of the
\* table entry of its paper size, transposed when the sheet is landscape, and both
\* are positive; a step that changes the paper size or the orientation leaves the
\* grid and every cell (content, fill mode, transform) as they were.
C31_SheetSizeFromTable ==
    /\ []SheetMatchesTable
    /\ [][sheet' # sheet => (grid' = grid /\ cells' = cells)]_vars

\* an A3 landscape sheet chosen while the first cell holds content
C31_Witness ==
    /\ sheet.paperSize = "A3" /\ sheet.orientation = "landscape"
    /\ sheet.width = 420 /\ sheet.height = 297
    /\ Len(cells) >= 1

----------------------------------------------------------------------------
(* The service worker: install, activate and the fetch handler with its cache *)

appVars == <<sheet, grid, cells, svg, closures, touches, svgRect, pdf, budget, fitted,
             currentTargetCell, processing, overlay, ontouchstart, mouse,
             pageGrid, loops, selectedPages>>

CACHE_NAME == "pdfomator-v1.2.2"

\* the caches that earlier versions of the worker left in the cache storage
OldCacheNames == {"pdfomator-v1", "pdfomator-v1.2.1"}

\* a request URL is a number: the nine STATIC_ASSETS are numbered in the order in
\* which their cache.add settles at install, the runtime URLs follow in the order
\* in which they are put in the cache for the first time
STATIC_ASSETS == 1..9

\* the default of the parameter maxEntries of limitCacheSize
maxEntries == 50

\* cache.keys() of the named cache, oldest entry first
KeysOf(cs, name) == IF name \in DOMAIN cs THEN cs[name] ELSE <<>>

Holds(keys, url) == \E i \in 1..Len(keys) : keys[i] = url

Without(keys, url) == SelectSeq(keys, LAMBDA k : k # url)

\* caches.open(name) followed by cache.put(url, response): the cache is created
\* when it does not exist, an entry of the same request is replaced and the new
\* entry is the youngest
cachePut(cs, name, url) ==
    [n \in DOMAIN cs \cup {name} |->
        IF n = name THEN Append(Without(KeysOf(cs, name), url), url) ELSE cs[n]]

\* cache.delete(url) on the named cache
cacheDelete(cs, name, url) ==
    [n \in DOMAIN cs |-> IF n = name THEN Without(cs[n], url) ELSE cs[n]]

\* caches.delete(name)
cachesDelete(cs, name) == [n \in DOMAIN cs \ {name} |-> cs[n]]

\* caches.match(request): some cache of the storage holds the request
cachesMatch(cs, url) == \E n \in DOMAIN cs : Holds(cs[n], url)

\* limitCacheSize keeping one entry more than maxEntries
entriesToDelete_KeepsOneMore(keys, max) ==
    IF Len(keys) > max + 1 THEN {keys[i] : i \in 1..(Len(keys) - max - 1)} ELSE {}

\* limitCacheSize: the keys it deletes, keys.slice(0, keys.length - maxEntries)
entriesToDelete(keys, max) ==
    IF Len(keys) > max THEN {keys[i] : i \in 1..(Len(keys) - max)} ELSE {}

\* install: caches.open(CACHE_NAME) settles and creates the cache
InstallOpens ==
    /\ worker.state = "installing" /\ ~worker.opened
    /\ caches' = [n \in DOMAIN caches \cup {CACHE_NAME} |-> KeysOf(caches, n)]
    /\ worker' = [worker EXCEPT !.opened = TRUE]
    /\ UNCHANGED <<appVars, handlers, requested>>

\* install: the cache.add of one more static asset settles; a rejected add is
\* caught and leaves the cache as it is
AddSettles(ok) ==
    LET url == worker.asset + 1
    IN  /\ worker.state = "installing" /\ worker.opened
        /\ url \in STATIC_ASSETS
        /\ ~ok => url <= MaxFailedAssets
        /\ worker' = [worker EXCEPT !.asset = url,
                         !.stored = IF ok THEN @ \cup {url} ELSE @]
        /\ caches' = IF ok THEN cachePut(caches, CACHE_NAME, url) ELSE caches
        /\ UNCHANGED <<appVars, handlers, requested>>

\* install: Promise.allSettled has settled, skipWaiting, and the activate event
SkipWaiting ==
    /\ worker.state = "installing" /\ worker.opened
    /\ worker.asset + 1 \notin STATIC_ASSETS
    /\ worker' = [worker EXCEPT !.state = "activating"]
    /\ UNCHANGED <<appVars, caches, handlers, requested>>

\* activate: caches.keys() settles and caches.delete is called on every other cache
ActivateLists ==
    /\ worker.state = "activating" /\ ~worker.listed
    /\ worker' = [worker EXCEPT !.listed = TRUE, !.cacheNames = DOMAIN caches]
    /\ UNCHANGED <<appVars, caches, handlers, requested>>

\* activate: one caches.delete settles
DeleteSettles(name) ==
    /\ worker.state = "activating" /\ worker.listed
    /\ name \in worker.cacheNames \ worker.deleted /\ name # CACHE_NAME
    /\ caches' = cachesDelete(caches, name)
    /\ worker' = [worker EXCEPT !.deleted = @ \cup {name}]
    /\ UNCHANGED <<appVars, handlers, requested>>

\* activate claiming the clients without waiting for the deletions
ClientsClaim_NoWait ==
    /\ worker.state = "activating" /\ worker.listed
    /\ worker' = [worker EXCEPT !.state = "activated", !.claimed = TRUE]
    /\ UNCHANGED <<appVars, caches, handlers, requested>>

\* activate: Promise.all has settled, self.clients.claim()
ClientsClaim ==
    /\ worker.state = "activating" /\ worker.listed
    /\ worker.cacheNames \ {CACHE_NAME} \subseteq worker.deleted
    /\ worker' = [worker EXCEPT !.state = "activated", !.claimed = TRUE]
    /\ UNCHANGED <<appVars, caches, handlers, requested>>

\* the static assets that the page requests: the first and the last to settle
RequestedAssets == {1, 9}

FreeHandler == CHOOSE id \in 1..MaxHandlers : \A h \in handlers : h.id # id

\* a runtime URL that was never put in a cache has no number yet: while the request
\* of it is in flight it is one of the tokens -1..-MaxHandlers
Tokens == {0 - id : id \in 1..MaxHandlers}

InFlight == {h.url : h \in handlers}

FreeToken == CHOOSE t \in Tokens \ InFlight : \A u \in Tokens \ InFlight : u <= t

\* the fetch handler: a request that is not a GET or that shouldCache refuses
\* (handled = FALSE) is left to the browser, any other is answered by
\* caches.match(event.request)
FetchEvent(url, handled) ==
    /\ worker.state = "activated"
    /\ Cardinality(handlers) < MaxHandlers
    /\ IF ~handled
       THEN UNCHANGED <<handlers, requested>>
       ELSE /\ handlers' = handlers \cup
                   {[id |-> FreeHandler, url |-> url, pc |-> "match", doomed |-> {}]}
            /\ \/ /\ url = FreeToken
                  /\ requested + Cardinality(Tokens \cap InFlight) < MaxRuntimeUrls
               \/ url \in RequestedAssets
            /\ UNCHANGED requested
    /\ UNCHANGED <<appVars, caches, worker>>

\* caches.match settles: a cached response is served, otherwise the network is asked
MatchSettles(h) ==
    /\ h \in handlers /\ h.pc = "match"
    /\ handlers' = IF cachesMatch(caches, h.url)
                   THEN handlers \ {h}
                   ELSE (handlers \ {h}) \cup {[h EXCEPT !.pc = "fetch"]}
    /\ UNCHANGED <<appVars, caches, worker, requested>>

\* fetch settles: a response of status 200 and of a cacheable type is put in the
\* cache after it was returned, any other response and a network error are not
NetworkSettles(h, cacheable) ==
    /\ h \in handlers /\ h.pc = "fetch"
    /\ handlers' = IF cacheable
                   THEN (handlers \ {h}) \cup {[h EXCEPT !.pc = "put"]}
                   ELSE handlers \ {h}
    /\ UNCHANGED <<appVars, caches, worker, requested>>

\* caches.open and cache.put settle; when the put is rejected the catch logs it
\* and limitCacheSize is not called. A URL that is put for the first time gets
\* the next number.
PutSettles(h, ok) ==
    LET url == IF h.url \in Tokens THEN 9 + requested + 1 ELSE h.url
    IN  /\ h \in handlers /\ h.pc = "put"
        /\ IF ok
           THEN /\ caches' = cachePut(caches, CACHE_NAME, url)
                /\ handlers' = (handlers \ {h}) \cup {[h EXCEPT !.pc = "keys", !.url = url]}
                /\ requested' = IF h.url \in Tokens THEN requested + 1 ELSE requested
           ELSE /\ handlers' = handlers \ {h}
                /\ UNCHANGED <<caches, requested>>
        /\ UNCHANGED <<appVars, worker>>

\* limitCacheSize: cache.keys() settles and cache.delete is called on the oldest
\* entries above maxEntries
KeysSettle(h) ==
    LET doomed == entriesToDelete(KeysOf(caches, CACHE_NAME), maxEntries)
    IN  /\ h \in handlers /\ h.pc = "keys"
        /\ handlers' = IF doomed = {}
                       THEN handlers \ {h}
                       ELSE (handlers \ {h}) \cup
                            {[h EXCEPT !.pc = "delete", !.doomed = doomed]}
        /\ UNCHANGED <<appVars, caches, worker, requested>>

\* limitCacheSize: one cache.delete settles; the handler has settled with the last
DeleteKeySettles(h, key) ==
    /\ h \in handlers /\ h.pc = "delete"
    /\ key \in h.doomed
    /\ caches' = cacheDelete(caches, CACHE_NAME, key)
    /\ handlers' = IF h.doomed = {key}
                   THEN handlers \ {h}
                   ELSE (handlers \ {h}) \cup {[h EXCEPT !.doomed = @ \ {key}]}
    /\ UNCHANGED <<appVars, worker, requested>>

\* the page as it is loaded and a worker that starts to install next to the
\* caches of earlier versions; their keys are never read
InitWorker ==
    /\ sheet = [paperSize |-> "A4", orientation |-> "portrait",
                width |-> 210, height |-> 297]
    /\ grid = [cols |-> 1, rows |-> 2]
    /\ cells = <<>>
    /\ svg = renderSVGSheet(sheet, grid, cells)
    /\ closures = {}
    /\ touches = <<>>
    /\ svgRect = [width |-> 210, height |-> 297]
    /\ pdf = NoPdf
    /\ budget = [starts |-> 0, moves |-> 0, wheels |-> 0]
    /\ fitted = NoFit
    /\ currentTargetCell = NoTarget
    /\ processing = EmptyBag
    /\ overlay = "none"
    /\ ontouchstart = FALSE
    /\ mouse = NoMouse
    /\ pageGrid = <<>>
    /\ loops = {}
    /\ selectedPages = EmptyBag
    /\ \E old \in SUBSET OldCacheNames : caches = [n \in old |-> <<>>]
    /\ worker = NewWorker
    /\ handlers = {}
    /\ requested = 0

Adds == \E ok \in BOOLEAN : AddSettles(ok)

Deletes == \E name \in OldCacheNames : DeleteSettles(name)

Fetches == \E url \in RequestedAssets \cup Tokens, handled \in BOOLEAN :
               FetchEvent(url, handled)

Matches == \E h \in handlers : MatchSettles(h)

Responds == \E h \in handlers, cacheable \in BOOLEAN : NetworkSettles(h, cacheable)

Puts == \E h \in handlers, ok \in BOOLEAN : PutSettles(h, ok)

Lists == \E h \in handlers : KeysSettle(h)

Evicts == \E h \in handlers : \E key \in h.doomed : DeleteKeySettles(h, key)

NextWorker ==
    \/ InstallOpens
    \/ Adds
    \/ SkipWaiting
    \/ ActivateLists
    \/ Deletes
    \/ ClientsClaim
    \/ Fetches
    \/ Matches
    \/ Responds
    \/ Puts
    \/ Lists
    \/ Evicts

SpecWorker == InitWorker /\ [][NextWorker]_vars

----------------------------------------------------------------------------
(* Claims: the caches of the service worker *)

\* the handlers that have put a response and whose limitCacheSize has not settled
Inserting == {h \in handlers : h.pc \in {"keys", "delete"}}

C33_OldCachesDeletedFirst ==
    (worker.claimed \/ worker.state = "activated") =>
        /\ worker.cacheNames \ {CACHE_NAME} \subseteq worker.deleted
        /\ DOMAIN caches \subseteq {CACHE_NAME}

\* the worker was activated next to the caches of two earlier versions
C33_Witness ==
    /\ worker.state = "activated" /\ worker.claimed
    /\ worker.deleted = OldCacheNames
    /\ DOMAIN caches = {CACHE_NAME}

\* C39: every static asset that was stored at install is in the current cache in
\* every later state: limitCacheSize never evicts a static asset.
C39_StaticAssetsKept ==
    \A url \in worker.stored : Holds(KeysOf(caches, CACHE_NAME), url)

----------------------------------------------------------------------------
(* Claims: the target of a file selection *)

----------------------------------------------------------------------------
(* Claims: the confirmation of a grid change *)

\* the populated cells of cs that are not populated in ds
Discarded(cs, ds) == {i \in Populated(cs) : ~IsCell(CellAt(ds, i))}

\* C35: no step discards the content of a cell unless the confirmation of selectGrid
\* was asked for the grid it selects; a selection that is declined leaves the grid
\* and every cell as they are; a selection that removes no populated cell sets the
\* grid without a confirmation.
C35_NoDiscardWithoutConfirmation ==
    [][/\ Discarded(cells, cells') # {} => NeedsConfirm(grid'.cols, grid'.rows)
       /\ \A cols \in 1..MaxPickedSize, rows \in 1..MaxPickedSize :
             /\ (NeedsConfirm(cols, rows) /\ SelectGrid(cols, rows, FALSE)) =>
                    (grid' = grid /\ cells' = cells)
             /\ (~NeedsConfirm(cols, rows) /\ SelectGrid(cols, rows, FALSE)) =>
                    (grid' = [cols |-> cols, rows |-> rows] /\ Discarded(cells, cells') = {})
      ]_vars

----------------------------------------------------------------------------
(* Claims: the transform outside cover mode, and the scale under a pan *)

\* C36: in every reachable state a populated cell whose fill mode is contain or fill
\* has the identity transform (1, 0, 0): no pan, pinch or wheel event changes the
\* transform of a cell that is not in cover mode, the events of a session that began
\* in cover mode included.
C36_TransformOnlyInCover ==
    \A i \in Populated(cells) :
        CellAt(cells, i).fillMode \in {"contain", "fill"} =>
            CellAt(cells, i).transform = IdentityTransform

\* the step is a move of the mouse with its button held on a session, or a move of
\* the only finger on the screen
PanMove ==
    \/ mouse # NoMouse /\ mouse' # NoMouse /\ mouse' # mouse
    \/ /\ Len(touches) = 1 /\ Len(touches') = 1
       /\ touches'[1].identifier = touches[1].identifier
       /\ touches' # touches

\* C37: a single-pointer pan changes translateX and translateY only: after the move
\* of a mouse drag or of a one-finger touch, the scale of every cell is the scale it
\* had immediately before the move, also when the wheel or a reset changed the
\* scale earlier in the session.
C37_PanKeepsScale ==
    [][PanMove =>
          \A i \in Populated(cells) \cap Populated(cells') :
              CellAt(cells', i).transform.scale = CellAt(cells, i).transform.scale
      ]_vars

----------------------------------------------------------------------------
(* Claims: the end of the thumbnail loop *)

\* the loops that the step ends although their flag is not set
EndingUncancelled == {L \in loops : ~L.canceled /\ \A M \in loops' : M.doc # L.doc}

\* C38: a loop that is never cancelled appends one entry, thumbnail or error
\* placeholder, for each of the pages 1..numPages in page order, yielding between
\* two pages, and stops with the entry of the last page: every entry it appends is
\* the entry of its current page, its page number advances by one at a yield, and
\* it ends only in the step that appends the entry of page numPages.
C38_LoopAppendsEveryPage ==
    [][/\ \A L \in EndingUncancelled :
            /\ L.pc = "render" /\ L.pageNum = L.numPages
            /\ Len(pageGrid') = Len(pageGrid) + 1
            /\ pageGrid'[Len(pageGrid')].doc = L.doc
            /\ pageGrid'[Len(pageGrid')].page = L.numPages
       /\ \A L \in loops, M \in loops' :
            (M.doc = L.doc /\ M.pageNum # L.pageNum) =>
                (L.pc = "yield" /\ M.pc = "render" /\ M.pageNum = L.pageNum + 1)
       /\ \A L \in loops, M \in loops' :
            (M.doc = L.doc /\ L.pc = "render" /\ M.pc = "yield") =>
                /\ Len(pageGrid') = Len(pageGrid) + 1
                /\ pageGrid'[Len(pageGrid')].doc = L.doc
                /\ pageGrid'[Len(pageGrid')].page = L.pageNum
      ]_vars

====
